---- MODULE Spec2Model ----
(***************************************************************************)
(* Model of the aws-tools repository: the ls-rds library (config.rs,       *)
(* lib.rs) and the ls-vpc library (lib.rs, scanner.rs).  SpecRds is        *)
(* Config::try_from followed by run of ls-rds, SpecVpc one call of run of  *)
(* ls-vpc, SpecVpcTwice two calls of it against the same responses, and    *)
(* SpecFn one call of get_peer_vpcs or get_cidrs on any response.          *)
(*                                                                         *)
(* Strings the code inspects character by character (role ARNs, regions)   *)
(* are sequences of one-character strings.  Option<T> is a sequence of     *)
(* length 0 (None) or 1 (Some).  Every remote call is one step and is      *)
(* appended to a call log.                                                 *)
(***************************************************************************)
EXTENDS Integers, Sequences, FiniteSets, TLC

VARIABLES
    \* ---- ls-rds ----
    cli,            \* the Cli handed to Config::try_from
    cfg,            \* result of Config::try_from
    pc,             \* position of the ls-rds program
    caller_account, \* run: caller_account
    regions,        \* run: regions (trimmed)
    instances,      \* accumulator of process_role_arns / enumerate_organization
    local,          \* accumulator of the running list_rds / scan_account
    role_arn,       \* scan_account: role_arn parameter
    ret,            \* who called the running list_rds / scan_account
    ri,             \* index of the region loop of list_rds / scan_account
    ai,             \* index of the arn loop of process_role_arns
    page,           \* enumerate_organization: the page being walked
    ki,             \* index of the account loop inside the page
    listed,         \* number of directory accounts the pages have delivered so far
    calls,          \* log of remote calls and provider constructions
    outcome,        \* result of run: "none", "ok", "err"
    \* ---- ls-vpc ----
    vcfg,           \* the Config handed to ls-vpc run
    vpc,            \* position of the ls-vpc program
    vri,            \* run: index of the region loop
    vfi,            \* list_filtered_vpcs: index of the filter loop
    vlist,          \* list of (vpc_id, name) returned / being built by list_vpcs
    vni,            \* run: index in vlist
    summary,        \* run: the VpcSummary being built
    vsi,            \* run: index of the scanner loop
    vpcs,           \* run: the BTreeMap, as a sequence of entries in key order
    vcalls,         \* log of remote calls of ls-vpc
    voutcome,       \* result of ls-vpc run: "none", "ok", "err"
    vhist,          \* the requests of the running call of run with their responses,
                    \* kept when run is called twice (vrun # 0)
    vrun,           \* 0: run is called once; 1, 2: first and second of two calls
    vfirst,         \* what the first call of run asked, received and returned
    \* ---- library functions called on their own ----
    fcall,          \* the function called: "none", "get_peer_vpcs", "get_cidrs"
    farg,           \* its arguments and the provider's responses
    fres            \* what it returned (None before the call)

rdsVars == <<cli, cfg, pc, caller_account, regions, instances, local, role_arn,
             ret, ri, ai, page, ki, listed, calls, outcome>>
vpcVars == <<vcfg, vpc, vri, vfi, vlist, vni, summary, vsi, vpcs, vcalls, voutcome,
             vhist, vrun, vfirst>>
fnVars == <<fcall, farg, fres>>
vars == <<rdsVars, vpcVars, fnVars>>

------------------------------------------------------------------------------
(* Bounds of the model *)
MaxArns == 2
MaxRegions == 2
MaxPageSize == 2
MaxFailures == 2
MaxVpcRegions == 2
MaxVpcIds == 2
MaxVpcPage == 2
MaxPeerings == 2
MaxAssoc == 2
MaxIpv6 == 1
MaxReplayFailures == 2
MaxSegments == 3
MaxWidth == 12

------------------------------------------------------------------------------
(* Option<T> and sequences *)
None == <<>>
Some(x) == <<x>>
UnwrapOrDefault(o, d) == IF o = None THEN d ELSE o[1]

SeqsUpTo(S, n) == UNION {[1..k -> S] : k \in 0..n}

RECURSIVE Flatten(_)
Flatten(ss) == IF ss = <<>> THEN <<>> ELSE Head(ss) \o Flatten(Tail(ss))

SelectIdx(s, P(_)) == {i \in 1..Len(s) : P(s[i])}

------------------------------------------------------------------------------
(* str methods used by ls-rds *)
StartsWith(s, p) == Len(s) >= Len(p) /\ SubSeq(s, 1, Len(p)) = p

Contains(s, p) == \E i \in 1..(Len(s) - Len(p) + 1) : SubSeq(s, i, i + Len(p) - 1) = p

\* str::split(':') collected: "a::b" gives "a", "", "b"; a string without the
\* delimiter gives itself.
RECURSIVE Split(_, _)
Split(s, d) ==
    IF \A i \in 1..Len(s) : s[i] # d
    THEN <<s>>
    ELSE LET i == CHOOSE k \in 1..Len(s) : s[k] = d /\ \A j \in 1..(k - 1) : s[j] # d
         IN  <<SubSeq(s, 1, i - 1)>> \o Split(SubSeq(s, i + 1, Len(s)), d)

\* Iterator::nth(n), zero based
Nth(s, n) == IF n + 1 <= Len(s) THEN Some(s[n + 1]) ELSE None

\* str::trim for the blank character
RECURSIVE TrimStart(_)
TrimStart(s) == IF s # <<>> /\ Head(s) = " " THEN TrimStart(Tail(s)) ELSE s
RECURSIVE TrimEnd(_)
TrimEnd(s) == IF s # <<>> /\ s[Len(s)] = " " THEN TrimEnd(SubSeq(s, 1, Len(s) - 1)) ELSE s
Trim(s) == TrimEnd(TrimStart(s))

------------------------------------------------------------------------------
(* String literals of ls-rds *)
ArnPrefix == <<"a", "r", "n", ":", "a", "w", "s", ":", "i", "a", "m", ":", ":">>
RoleMarker == <<":", "r", "o", "l", "e", "/">>
OrgRoleSuffix == <<":", "r", "o", "l", "e", "/", "Y", "o", "u", "r", "C", "r", "o", "s", "s",
                   "A", "c", "c", "o", "u", "n", "t", "R", "o", "l", "e">>
Colon == ":"

(* Inputs: account ids, regions, role identifiers *)
Acct1 == <<"1">>
Acct2 == <<"2">>

RegionA == <<"r", "1">>
RegionB == <<" ", "r", "2">>
RegionInputs == {RegionA, RegionB}

ArnOf1 == ArnPrefix \o Acct1 \o RoleMarker \o <<"R">>
ArnOf2 == ArnPrefix \o Acct2 \o RoleMarker \o <<"R">>
ArnSevenFields == ArnPrefix \o Acct1 \o RoleMarker \o <<"R", ":", "x">>
ArnUser == ArnPrefix \o Acct1 \o <<":", "u", "s", "e", "r", "/", "U">>
NotAnArn == <<"n", "o", "t", "-", "a", "n", "-", "a", "r", "n">>
RoleArnInputs == {ArnOf1, ArnOf2, ArnSevenFields, ArnUser, NotAnArn}

------------------------------------------------------------------------------
(* ls-rds config.rs *)

\* mutant of ValidRoleArn: the role-path marker is not looked for
ValidRoleArnPrefixOnly(arn) == StartsWith(arn, ArnPrefix)

\* the test of the validation loop of Config::try_from
ValidRoleArn(arn) == StartsWith(arn, ArnPrefix) /\ Contains(arn, RoleMarker)

extract_account_from_arn(arn) == Nth(Split(arn, Colon), 4)

ModeCurrentAccount == [kind |-> "CurrentAccount", arns |-> <<>>]
ModeOrganization == [kind |-> "Organization", arns |-> <<>>]
ModeRoleArns(arns) == [kind |-> "RoleArns", arns |-> arns]

CfgErr(e) == [ok |-> FALSE, err |-> e, regions |-> <<>>, mode |-> ModeCurrentAccount]
CfgOk(rs, m) == [ok |-> TRUE, err |-> "", regions |-> rs, mode |-> m]

\* mutant of ConfigTryFrom: a non-empty identifier list wins over use_org
ConfigTryFromArnsFirst(c) ==
    IF c.regions = <<>>
    THEN CfgErr("At least one region must be specified")
    ELSE IF \E i \in 1..Len(c.role_arns) : ~ValidRoleArn(c.role_arns[i])
    THEN CfgErr("Invalid role ARN format")
    ELSE CfgOk(c.regions,
               IF c.role_arns # <<>> THEN ModeRoleArns(c.role_arns)
               ELSE IF c.use_org THEN ModeOrganization
               ELSE ModeCurrentAccount)

\* Config::try_from(cli)
ConfigTryFrom(c) ==
    IF c.regions = <<>>
    THEN CfgErr("At least one region must be specified")
    ELSE IF \E i \in 1..Len(c.role_arns) : ~ValidRoleArn(c.role_arns[i])
    THEN CfgErr("Invalid role ARN format")
    ELSE CfgOk(c.regions,
               IF c.use_org THEN ModeOrganization
               ELSE IF c.role_arns # <<>> THEN ModeRoleArns(c.role_arns)
               ELSE ModeCurrentAccount)

CliInputs ==
    [use_org : BOOLEAN,
     role_arns : SeqsUpTo(RoleArnInputs, MaxArns),
     regions : SeqsUpTo(RegionInputs, MaxRegions)]

\* the Cli after it was moved into try_from
CliMoved == [use_org |-> FALSE, role_arns |-> <<>>, regions |-> <<>>]

------------------------------------------------------------------------------
(* Remote services seen by ls-rds *)

\* STS GetCallerIdentity: the account field of a successful response
CallerIdentityResponses == {Some(Acct1)}

\* Organizations ListAccounts: the member accounts in the order the directory
\* lists them (Account::id is an Option); the provider cuts them into pages
OrgAccounts == <<Some(Acct2), Some(Acct1)>>

\* RDS DescribeDBInstances: db_instance_identifier of the instances that the
\* account owning the credentials has in a region
DbTable(acct, region) ==
    IF acct = Acct1 /\ region = <<"r", "1">> THEN <<Some("db-a"), Some("db-b")>>
    ELSE IF acct = Acct1 /\ region = <<"r", "2">> THEN <<Some("db-c")>>
    ELSE IF acct = Acct2 /\ region = <<"r", "1">> THEN <<None>>
    ELSE IF acct = Acct2 /\ region = <<"r", "2">> THEN <<Some("db-d")>>
    ELSE <<>>

\* one entry of the call log; prov = 0 stands for the ambient credentials
Call(op, arn, region, prov, ok) ==
    [op |-> op, arn |-> arn, region |-> region, prov |-> prov, ok |-> ok]

\* the failed remote calls of a run; a run of the model has at most MaxFailures
FailedCalls(log) == Cardinality(SelectIdx(log, LAMBDA c : ~c.ok))
MayFail(log) == FailedCalls(log) < MaxFailures

ProvidersBuilt(log) == Cardinality(SelectIdx(log, LAMBDA c : c.op = "AssumeRoleProvider"))

RdsInstance(region, arn, id) == [region |-> region, role_arn |-> arn, instance_id |-> id]

\* the RdsInstance values pushed for one successful DescribeDBInstances output
InstancesOf(output, region, arn) ==
    [i \in 1..Len(output) |-> RdsInstance(region, arn, UnwrapOrDefault(output[i], ""))]

NoPage == [accounts |-> <<>>, more |-> FALSE]

------------------------------------------------------------------------------
(* ls-rds: Config::try_from and lib.rs *)

TryFrom ==
    /\ pc = "cli"
    /\ cfg' = ConfigTryFrom(cli)
    /\ cli' = CliMoved
    /\ pc' = IF cfg'.ok THEN "ready" ELSE "rejected"
    /\ UNCHANGED <<caller_account, regions, instances, local, role_arn, ret, ri, ai,
                   page, ki, listed, calls, outcome>>
    /\ UNCHANGED <<vpcVars, fnVars>>

\* mutant of GetCallerAccount: a failed GetCallerIdentity is replaced by the
\* default account instead of being returned
GetCallerAccountDefaulted ==
    /\ pc = "ready"
    /\ \E ok \in BOOLEAN :
        /\ ok \/ MayFail(calls)
        /\ calls' = Append(calls, Call("GetCallerIdentity", <<>>, <<>>, 0, ok))
        /\ \E resp \in CallerIdentityResponses :
              caller_account' = IF ok THEN UnwrapOrDefault(resp, <<>>) ELSE <<>>
    /\ regions' = [i \in 1..Len(cfg.regions) |-> Trim(cfg.regions[i])]
    /\ pc' = CASE cfg.mode.kind = "Organization" -> "org_page"
               [] cfg.mode.kind = "RoleArns" -> "arns"
               [] OTHER -> "list_rds"
    /\ ret' = "run"
    /\ instances' = <<>>
    /\ local' = <<>>
    /\ ri' = 1
    /\ ai' = 1
    /\ UNCHANGED <<cli, cfg, role_arn, page, ki, listed, outcome>>
    /\ UNCHANGED <<vpcVars, fnVars>>

\* run, lines 218-250: get_caller_account, the region list, the match on the mode
GetCallerAccount ==
    /\ pc = "ready"
    /\ \E ok \in BOOLEAN :
        /\ ok \/ MayFail(calls)
        /\ calls' = Append(calls, Call("GetCallerIdentity", <<>>, <<>>, 0, ok))
        /\ IF ~ok
           THEN /\ pc' = "done"
                /\ outcome' = "err"
                /\ UNCHANGED <<caller_account, regions, ret>>
           ELSE /\ \E resp \in CallerIdentityResponses :
                      caller_account' = UnwrapOrDefault(resp, <<>>)
                /\ regions' = [i \in 1..Len(cfg.regions) |-> Trim(cfg.regions[i])]
                /\ pc' = CASE cfg.mode.kind = "Organization" -> "org_page"
                           [] cfg.mode.kind = "RoleArns" -> "arns"
                           [] OTHER -> "list_rds"
                /\ ret' = "run"
                /\ outcome' = outcome
    /\ instances' = <<>>
    /\ local' = <<>>
    /\ ri' = 1
    /\ ai' = 1
    /\ UNCHANGED <<cli, cfg, role_arn, page, ki, listed>>
    /\ UNCHANGED <<vpcVars, fnVars>>

\* mutant of ListRdsRegion: a failed DescribeDBInstances is returned with ?
ListRdsRegionPropagates ==
    /\ pc = "list_rds"
    /\ ri <= Len(regions)
    /\ \E ok \in BOOLEAN :
        /\ ok \/ MayFail(calls)
        /\ calls' = Append(calls, Call("DescribeDBInstances", <<>>, regions[ri], 0, ok))
        /\ local' = IF ok
                    THEN local \o InstancesOf(DbTable(caller_account, regions[ri]), regions[ri], None)
                    ELSE local
        /\ pc' = IF ok THEN pc ELSE "done"
        /\ outcome' = IF ok THEN outcome ELSE "err"
    /\ ri' = ri + 1
    /\ UNCHANGED <<cli, cfg, caller_account, regions, instances, role_arn, ret, ai,
                   page, ki, listed>>
    /\ UNCHANGED <<vpcVars, fnVars>>

\* list_rds: one iteration of the region loop
ListRdsRegion ==
    /\ pc = "list_rds"
    /\ ri <= Len(regions)
    /\ \E ok \in BOOLEAN :
        /\ ok \/ MayFail(calls)
        /\ calls' = Append(calls, Call("DescribeDBInstances", <<>>, regions[ri], 0, ok))
        /\ local' = IF ok
                    THEN local \o InstancesOf(DbTable(caller_account, regions[ri]), regions[ri], None)
                    ELSE local
    /\ ri' = ri + 1
    /\ UNCHANGED <<cli, cfg, pc, caller_account, regions, instances, role_arn, ret, ai,
                   page, ki, listed, outcome>>
    /\ UNCHANGED <<vpcVars, fnVars>>

\* list_rds returns Ok(instances) to run or to process_role_arns
ListRdsReturn ==
    /\ pc = "list_rds"
    /\ ri > Len(regions)
    /\ IF ret = "run"
       THEN /\ instances' = local
            /\ pc' = "done"
            /\ outcome' = "ok"
            /\ ai' = ai
       ELSE /\ instances' = instances \o local
            /\ pc' = "arns"
            /\ outcome' = outcome
            /\ ai' = ai + 1
    /\ local' = <<>>
    /\ UNCHANGED <<cli, cfg, caller_account, regions, role_arn, ret, ri, page, ki,
                   listed, calls>>
    /\ UNCHANGED <<vpcVars, fnVars>>

\* mutant of ScanAccountRegion: the provider is built once, for the first
\* region, and shared by the later regions
ScanAccountRegionSharedProvider ==
    /\ pc = "scan_account"
    /\ ri <= Len(regions)
    /\ \E ok \in BOOLEAN :
        LET built == ProvidersBuilt(calls)
            prov == IF ri = 1 THEN built + 1 ELSE built
            acct == UnwrapOrDefault(extract_account_from_arn(role_arn), <<>>)
        IN  /\ ok \/ MayFail(calls)
            /\ calls' = calls
                  \o (IF ri = 1
                      THEN <<Call("AssumeRoleProvider", role_arn, regions[1], prov, TRUE)>>
                      ELSE <<>>)
                  \o <<Call("DescribeDBInstances", role_arn, regions[ri], prov, ok)>>
            /\ local' = IF ok
                        THEN local \o InstancesOf(DbTable(acct, regions[ri]), regions[ri], Some(role_arn))
                        ELSE local
    /\ ri' = ri + 1
    /\ UNCHANGED <<cli, cfg, pc, caller_account, regions, instances, role_arn, ret, ai,
                   page, ki, listed, outcome>>
    /\ UNCHANGED <<vpcVars, fnVars>>

\* mutant of ScanAccountRegion: a failed DescribeDBInstances is returned with ?
ScanAccountRegionPropagates ==
    /\ pc = "scan_account"
    /\ ri <= Len(regions)
    /\ \E ok \in BOOLEAN :
        LET prov == ProvidersBuilt(calls) + 1
            acct == UnwrapOrDefault(extract_account_from_arn(role_arn), <<>>)
        IN  /\ ok \/ MayFail(calls)
            /\ calls' = calls \o <<Call("AssumeRoleProvider", role_arn, regions[ri], prov, TRUE),
                                   Call("DescribeDBInstances", role_arn, regions[ri], prov, ok)>>
            /\ local' = IF ok
                        THEN local \o InstancesOf(DbTable(acct, regions[ri]), regions[ri], Some(role_arn))
                        ELSE local
            /\ pc' = IF ok THEN pc ELSE "done"
            /\ outcome' = IF ok THEN outcome ELSE "err"
    /\ ri' = ri + 1
    /\ UNCHANGED <<cli, cfg, caller_account, regions, instances, role_arn, ret, ai,
                   page, ki, listed>>
    /\ UNCHANGED <<vpcVars, fnVars>>

\* scan_account: one iteration of the region loop
ScanAccountRegion ==
    /\ pc = "scan_account"
    /\ ri <= Len(regions)
    /\ \E ok \in BOOLEAN :
        LET prov == ProvidersBuilt(calls) + 1
            acct == UnwrapOrDefault(extract_account_from_arn(role_arn), <<>>)
        IN  /\ ok \/ MayFail(calls)
            /\ calls' = calls \o <<Call("AssumeRoleProvider", role_arn, regions[ri], prov, TRUE),
                                   Call("DescribeDBInstances", role_arn, regions[ri], prov, ok)>>
            /\ local' = IF ok
                        THEN local \o InstancesOf(DbTable(acct, regions[ri]), regions[ri], Some(role_arn))
                        ELSE local
    /\ ri' = ri + 1
    /\ UNCHANGED <<cli, cfg, pc, caller_account, regions, instances, role_arn, ret, ai,
                   page, ki, listed, outcome>>
    /\ UNCHANGED <<vpcVars, fnVars>>

\* mutant of ScanAccountReturn: the caller puts the new records in front of
\* those it already holds
ScanAccountReturnPrepends ==
    /\ pc = "scan_account"
    /\ ri > Len(regions)
    /\ instances' = local \o instances
    /\ local' = <<>>
    /\ IF ret = "arns"
       THEN /\ pc' = "arns"
            /\ ai' = ai + 1
            /\ ki' = ki
       ELSE /\ pc' = "org_acct"
            /\ ai' = ai
            /\ ki' = ki + 1
    /\ UNCHANGED <<cli, cfg, caller_account, regions, role_arn, ret, ri, page,
                   listed, calls, outcome>>
    /\ UNCHANGED <<vpcVars, fnVars>>

\* scan_account returns Ok(instances) to process_role_arns or enumerate_organization
ScanAccountReturn ==
    /\ pc = "scan_account"
    /\ ri > Len(regions)
    /\ instances' = instances \o local
    /\ local' = <<>>
    /\ IF ret = "arns"
       THEN /\ pc' = "arns"
            /\ ai' = ai + 1
            /\ ki' = ki
       ELSE /\ pc' = "org_acct"
            /\ ai' = ai
            /\ ki' = ki + 1
    /\ UNCHANGED <<cli, cfg, caller_account, regions, role_arn, ret, ri, page,
                   listed, calls, outcome>>
    /\ UNCHANGED <<vpcVars, fnVars>>

\* mutant of ArnInCurrentAccount: the account is taken from the wrong field
ArnInCurrentAccountWrongField(arn, caller) ==
    UnwrapOrDefault(Nth(Split(arn, Colon), 5), <<>>) = caller

\* process_role_arns: the comparison of one iteration of the arn loop
ArnInCurrentAccount(arn, caller) ==
    UnwrapOrDefault(Nth(Split(arn, Colon), 4), <<>>) = caller

\* process_role_arns: one iteration of the arn loop, up to the call it makes
RoleArnNext ==
    /\ pc = "arns"
    /\ ai <= Len(cfg.mode.arns)
    /\ LET arn == cfg.mode.arns[ai]
       IN  IF ArnInCurrentAccount(arn, caller_account)
           THEN /\ pc' = "list_rds"
                /\ role_arn' = role_arn
           ELSE /\ pc' = "scan_account"
                /\ role_arn' = arn
    /\ ret' = "arns"
    /\ ri' = 1
    /\ local' = <<>>
    /\ UNCHANGED <<cli, cfg, caller_account, regions, instances, ai, page, ki,
                   listed, calls, outcome>>
    /\ UNCHANGED <<vpcVars, fnVars>>

\* process_role_arns returns Ok(instances) to run
RoleArnsReturn ==
    /\ pc = "arns"
    /\ ai > Len(cfg.mode.arns)
    /\ pc' = "done"
    /\ outcome' = "ok"
    /\ UNCHANGED <<cli, cfg, caller_account, regions, instances, local, role_arn, ret,
                   ri, ai, page, ki, listed, calls>>
    /\ UNCHANGED <<vpcVars, fnVars>>

\* enumerate_organization: pages.next().await and page?
OrgFetchPage ==
    /\ pc = "org_page"
    /\ \E ok \in BOOLEAN :
        /\ ok \/ MayFail(calls)
        /\ calls' = Append(calls, Call("ListAccounts", <<>>, <<>>, 0, ok))
        /\ IF ~ok
           THEN /\ pc' = "done"
                /\ outcome' = "err"
                /\ UNCHANGED <<page, listed>>
           ELSE /\ \E n \in 1..MaxPageSize :
                      /\ n <= Len(OrgAccounts) - listed
                      /\ page' = [accounts |-> SubSeq(OrgAccounts, listed + 1, listed + n),
                                  more |-> listed + n < Len(OrgAccounts)]
                      /\ listed' = listed + n
                /\ pc' = "org_acct"
                /\ outcome' = outcome
    /\ ki' = 1
    /\ UNCHANGED <<cli, cfg, caller_account, regions, instances, local, role_arn, ret,
                   ri, ai>>
    /\ UNCHANGED <<vpcVars, fnVars>>

\* enumerate_organization: one iteration of the account loop, up to scan_account
OrgNextAccount ==
    /\ pc = "org_acct"
    /\ ki <= Len(page.accounts)
    /\ role_arn' = ArnPrefix \o UnwrapOrDefault(page.accounts[ki], <<>>) \o OrgRoleSuffix
    /\ pc' = "scan_account"
    /\ ret' = "org"
    /\ ri' = 1
    /\ local' = <<>>
    /\ UNCHANGED <<cli, cfg, caller_account, regions, instances, ai, page, ki,
                   listed, calls, outcome>>
    /\ UNCHANGED <<vpcVars, fnVars>>

\* enumerate_organization: the page is exhausted; next page or Ok(instances)
OrgPageEnd ==
    /\ pc = "org_acct"
    /\ ki > Len(page.accounts)
    /\ IF page.more
       THEN /\ pc' = "org_page"
            /\ outcome' = outcome
       ELSE /\ pc' = "done"
            /\ outcome' = "ok"
    /\ UNCHANGED <<cli, cfg, caller_account, regions, instances, local, role_arn, ret,
                   ri, ai, page, ki, listed, calls>>
    /\ UNCHANGED <<vpcVars, fnVars>>

------------------------------------------------------------------------------
(* ls-vpc: strings, ordering, the BTreeMap *)

\* the characters of the model in the order of their code points
CharOrder == <<" ", "-", "/", "0", "1", "2", "3", ":", "R", "U", "a", "b", "c", "p", "r", "v">>
CharRank(c) == CHOOSE i \in 1..Len(CharOrder) : CharOrder[i] = c

\* Ord for String: lexicographic on the characters
RECURSIVE StrLess(_, _)
StrLess(s, t) ==
    IF t = <<>> THEN FALSE
    ELSE IF s = <<>> THEN TRUE
    ELSE IF Head(s) = Head(t) THEN StrLess(Tail(s), Tail(t))
    ELSE CharRank(Head(s)) < CharRank(Head(t))

\* Ord for (String, String)
KeyLess(k1, k2) == StrLess(k1[1], k2[1]) \/ (k1[1] = k2[1] /\ StrLess(k1[2], k2[2]))

\* mutant of BTreeInsert: a new key goes to the end, as in a list of entries
BTreeInsertAtEnd(m, k, v) ==
    IF \E i \in 1..Len(m) : m[i].key = k
    THEN [i \in 1..Len(m) |-> IF m[i].key = k THEN [key |-> k, val |-> v] ELSE m[i]]
    ELSE Append(m, [key |-> k, val |-> v])

\* BTreeMap::insert on the map kept as a sequence of entries in key order
BTreeInsert(m, k, v) ==
    IF \E i \in 1..Len(m) : m[i].key = k
    THEN [i \in 1..Len(m) |-> IF m[i].key = k THEN [key |-> k, val |-> v] ELSE m[i]]
    ELSE LET n == Cardinality({i \in 1..Len(m) : KeyLess(m[i].key, k)})
         IN  SubSeq(m, 1, n) \o <<[key |-> k, val |-> v]>> \o SubSeq(m, n + 1, Len(m))

\* Vec::sort on strings (stable insertion into an ordered prefix)
RECURSIVE SortStrings(_)
SortStrings(s) ==
    IF s = <<>> THEN <<>>
    ELSE LET rest == SortStrings(Tail(s))
             n == Cardinality({i \in 1..Len(rest) : StrLess(rest[i], Head(s))})
         IN  SubSeq(rest, 1, n) \o <<Head(s)>> \o SubSeq(rest, n + 1, Len(rest))

\* Vec::dedup: removes consecutive repeated elements
RECURSIVE Dedup(_)
Dedup(s) ==
    IF Len(s) <= 1 THEN s
    ELSE IF s[1] = s[2] THEN Dedup(Tail(s))
    ELSE <<s[1]>> \o Dedup(Tail(s))

------------------------------------------------------------------------------
(* Remote services seen by ls-vpc *)

Region1 == <<"r", "1">>
Region2 == <<"r", "2">>
VpcRegionInputs == {Region1, Region2}

VpcPrefix == <<"v", "p", "c", "-">>
VpcA == VpcPrefix \o <<"a">>
VpcB == VpcPrefix \o <<"b">>
VpcIdInputs == {VpcA, VpcB}

\* EC2 DescribeVpcs: the networks of a region in the order the provider lists them
Vpc(id, name, cidr, assoc, ipv6) ==
    [vpc_id |-> id, name |-> name, cidr_block |-> cidr, assoc |-> assoc, ipv6 |-> ipv6]

DescribeVpcs(region) ==
    IF region = Region1
    THEN <<Vpc(Some(VpcB), Some("net-b"), Some(<<"2">>), <<Some(<<"2">>), Some(<<"1">>)>>, <<>>),
           Vpc(Some(VpcA), None, Some(<<"1">>), <<Some(<<"1">>)>>, <<Some(<<"a", ":", ":">>)>>)>>
    ELSE IF region = Region2
    THEN <<Vpc(Some(VpcB), None, Some(<<"3">>), <<>>, <<>>)>>
    ELSE <<>>

\* EC2 DescribeVpcs without filter: the provider answers with a page of at most
\* n networks and a next_token when more remain
DescribeVpcsPage(region, n) ==
    LET all == DescribeVpcs(region)
    IN  IF n < Len(all)
        THEN [vpcs |-> SubSeq(all, 1, n), next_token |-> Some("more")]
        ELSE [vpcs |-> all, next_token |-> None]

\* EC2 DescribeVpcs with vpc_ids(id): the matching networks; none means the
\* provider answers InvalidVpcID.NotFound
DescribeVpcsById(region, id) ==
    SelectSeq(DescribeVpcs(region), LAMBDA v : v.vpc_id = Some(id))

\* EC2 DescribeVpcPeeringConnections of a region
Peering(code, requester, accepter) ==
    [code |-> code, requester |-> requester, accepter |-> accepter]

PeeringConnections(region) ==
    IF region = Region1
    THEN <<Peering(Some("active"), Some(VpcA), Some(VpcB)),
           Peering(Some("pending-acceptance"), Some(VpcA), Some(VpcA)),
           Peering(Some("active"), Some(VpcB), Some(VpcA)),
           Peering(None, Some(VpcB), Some(VpcB))>>
    ELSE <<>>

\* EC2 DescribeInternetGateways filtered by attachment.vpc-id
InternetGateways(region, id) ==
    IF region = Region1 /\ id = VpcA THEN <<"igw-1">> ELSE <<>>

ResourceRecord(arn, rtype, name) == [arn |-> arn, rtype |-> rtype, name |-> name]

\* the items the service APIs hold; vpc is the item's own network-id field
Item(arn, name, v) == [arn |-> arn, name |-> name, vpc |-> v]

Ec2Instances(region) ==
    IF region = Region1 THEN <<Item(Some("i-1"), Some("web"), Some(VpcA))>>
    ELSE <<Item(Some("i-2"), None, Some(VpcB))>>
Ec2NetworkInterfaces(region) ==
    IF region = Region1 THEN <<Item(Some("eni-1"), None, Some(VpcA))>> ELSE <<>>
Ec2NatGateways(region) == <<>>
Ec2FlowLogs(region) == <<>>
ElbLoadBalancers(region) ==
    IF region = Region1
    THEN <<Item(Some("lb-1"), Some("front"), Some(VpcB)), Item(Some("lb-2"), None, None)>>
    ELSE <<>>
ElbTargetGroups(region) ==
    IF region = Region2 THEN <<Item(Some("tg-1"), Some("tg"), Some(VpcB))>>
    ELSE <<Item(Some("tg-2"), Some("tg"), Some(VpcA)), Item(Some("tg-3"), None, None)>>
RdsDbInstances(region) ==
    IF region = Region1
    THEN <<Item(Some("db-1"), Some("main"), Some(VpcA)),
           Item(Some("db-2"), Some("replica"), Some(VpcB)),
           Item(Some("db-3"), None, None)>>
    ELSE <<>>
RdsDbClusters(region) ==
    IF region = Region1 THEN <<Item(Some("cl-1"), Some("aurora"), None)>> ELSE <<>>
DocDbClusters(region) ==
    IF region = Region1 THEN <<Item(Some("doc-1"), Some("docs"), None)>> ELSE <<>>

------------------------------------------------------------------------------
(* ls-vpc lib.rs and scanner.rs: the functions *)

\* the (vpc_id, name) pair built from one Vpc of a response
VpcEntry(v) == <<UnwrapOrDefault(v.vpc_id, <<>>), v.name>>

\* list_all_vpcs on a successful response: the networks of that response
list_all_vpcs(resp) == [i \in 1..Len(resp.vpcs) |-> VpcEntry(resp.vpcs[i])]

\* EC2 DescribeVpcPeeringConnections with the filter <side>-vpc-info.vpc-id =
\* vpc_id, answered from the connections conns the provider holds
DescribeVpcPeeringConnections(conns, side, vpc_id) ==
    SelectSeq(conns, LAMBDA c : IF side = "requester"
                                THEN c.requester = Some(vpc_id)
                                ELSE c.accepter = Some(vpc_id))

\* mutant of collect_peers: the status code is not tested
collect_peersAnyState(conns, vpc_id, side) ==
    LET resp == DescribeVpcPeeringConnections(conns, side, vpc_id)
        other(c) == IF side = "requester" THEN c.accepter ELSE c.requester
        kept == SelectSeq(resp, LAMBDA c : other(c) # None)
    IN  [i \in 1..Len(kept) |-> other(kept[i])[1]]

\* collect_peers on a successful response; side is the role the filter gives
\* vpc_id and extract_other reads the other side of the connection
collect_peers(conns, vpc_id, side) ==
    LET resp == DescribeVpcPeeringConnections(conns, side, vpc_id)
        other(c) == IF side = "requester" THEN c.accepter ELSE c.requester
        kept == SelectSeq(resp, LAMBDA c : c.code = Some("active") /\ other(c) # None)
    IN  [i \in 1..Len(kept) |-> other(kept[i])[1]]

\* mutant of get_peer_vpcs: the two lists are joined and returned as they are
get_peer_vpcsJoinedOnly(conns, vpc_id) ==
    collect_peers(conns, vpc_id, "requester") \o collect_peers(conns, vpc_id, "accepter")

\* get_peer_vpcs when both calls succeed
get_peer_vpcs(conns, vpc_id) ==
    Dedup(SortStrings(collect_peers(conns, vpc_id, "requester")
                      \o collect_peers(conns, vpc_id, "accepter")))

\* main.rs peering_status on a successful response: one request, filtered on
\* the requester side, and any() over the status codes
peering_status(conns, vpc_id) ==
    LET resp == DescribeVpcPeeringConnections(conns, "requester", vpc_id)
    IN  IF \E k \in 1..Len(resp) : resp[k].code = Some("active")
        THEN "Peered" ELSE "Unpeered"

\* is_public on a successful response
is_public(region, vpc_id) == InternetGateways(region, vpc_id) # <<>>

\* mutant of get_cidrs: the list is sorted and repeated blocks are kept
get_cidrsSortedOnly(resp) ==
    LET opts == IF resp = <<>> THEN <<>>
                ELSE <<resp[1].cidr_block>> \o resp[1].assoc \o resp[1].ipv6
        present == SelectSeq(opts, LAMBDA o : o # None)
    IN  SortStrings([i \in 1..Len(present) |-> present[i][1]])

\* get_cidrs on a successful response resp of DescribeVpcs with vpc_ids(vpc_id)
get_cidrs(resp) ==
    LET opts == IF resp = <<>> THEN <<>>
                ELSE <<resp[1].cidr_block>> \o resp[1].assoc \o resp[1].ipv6
        present == SelectSeq(opts, LAMBDA o : o # None)
    IN  Dedup(SortStrings([i \in 1..Len(present) |-> present[i][1]]))

\* the records pushed for the items of one response
Records(items, rtype, nameIsId) ==
    [i \in 1..Len(items) |->
        ResourceRecord(UnwrapOrDefault(items[i].arn, ""), rtype,
                       IF nameIsId THEN UnwrapOrDefault(items[i].arn, "")
                       ELSE UnwrapOrDefault(items[i].name, ""))]

InVpc(items, vpc_id) == SelectSeq(items, LAMBDA x : x.vpc = Some(vpc_id))

\* the records each API call of a scanner contributes, in call order
Ec2ScannerCalls(region, vpc_id) ==
    <<Records(InVpc(Ec2Instances(region), vpc_id), "ec2.instance", FALSE),
      Records(InVpc(Ec2NetworkInterfaces(region), vpc_id), "ec2.eni", FALSE),
      Records(InVpc(Ec2NatGateways(region), vpc_id), "ec2.nat-gateway", TRUE),
      Records(InVpc(Ec2FlowLogs(region), vpc_id), "ec2.flow-log", FALSE)>>

\* mutant of ElbScannerCalls: the items are not compared with vpc_id
ElbScannerCallsUnfiltered(region, vpc_id) ==
    <<Records(ElbLoadBalancers(region), "elbv2.load-balancer", FALSE),
      Records(ElbTargetGroups(region), "elbv2.target-group", FALSE)>>

ElbScannerCalls(region, vpc_id) ==
    <<Records(InVpc(ElbLoadBalancers(region), vpc_id), "elbv2.load-balancer", FALSE),
      Records(InVpc(ElbTargetGroups(region), vpc_id), "elbv2.target-group", FALSE)>>

\* mutant of RdsScannerCalls: the clusters are filtered like the instances
RdsScannerCallsClustersFiltered(region, vpc_id) ==
    <<Records(InVpc(RdsDbInstances(region), vpc_id), "rds.instance", FALSE),
      Records(InVpc(RdsDbClusters(region), vpc_id), "rds.cluster", FALSE),
      Records(InVpc(DocDbClusters(region), vpc_id), "docdb.cluster", FALSE)>>

RdsScannerCalls(region, vpc_id) ==
    <<Records(InVpc(RdsDbInstances(region), vpc_id), "rds.instance", FALSE),
      Records(RdsDbClusters(region), "rds.cluster", FALSE),
      Records(DocDbClusters(region), "docdb.cluster", FALSE)>>

\* run: the registered scanners, in order
Scanners == <<"Ec2Scanner", "ElbScanner", "RdsScanner">>

ScannerCalls(s, region, vpc_id) ==
    CASE s = "Ec2Scanner" -> Ec2ScannerCalls(region, vpc_id)
      [] s = "ElbScanner" -> ElbScannerCalls(region, vpc_id)
      [] OTHER -> RdsScannerCalls(region, vpc_id)

\* ServiceScanner::scan: failAt is the first API call that fails (0: none);
\* the ? on a failed call drops the records collected so far
Scan(s, region, vpc_id, failAt) ==
    IF failAt = 0 THEN Some(Flatten(ScannerCalls(s, region, vpc_id))) ELSE None

VpcSummary(name, public, cidrs, peers, resources) ==
    [name |-> name, public |-> public, cidrs |-> cidrs, peers |-> peers,
     resources |-> resources]

NoSummary == VpcSummary(None, FALSE, <<>>, <<>>, <<>>)

\* summary_row: the cells REGION, VIS, CIDR, VPC-ID, PEERS, NAME
summary_row(region, vpc_id, s) ==
    <<region, IF s.public THEN "public" ELSE "private", s.cidrs, vpc_id, s.peers,
      UnwrapOrDefault(s.name, "")>>

\* format_summary_table / format_detail_table: one row (one block) per entry,
\* in the iteration order of the map
format_summary_table(m) == [i \in 1..Len(m) |-> summary_row(m[i].key[1], m[i].key[2], m[i].val)]

VCall(op, arg, res) == [op |-> op, arg |-> arg, res |-> res]

\* a request (op in region with argument arg) and the response it received
VResp(op, region, arg, res, data) ==
    [op |-> op, region |-> region, arg |-> arg, res |-> res, data |-> data]

SameRequest(a, b) == a.op = b.op /\ a.region = b.region /\ a.arg = b.arg

\* the responses the provider may give to a request after the history h: in a
\* second call of run it answers the k-th occurrence of a request as it
\* answered the k-th occurrence of that request in the first call; a recorded
\* call of run meets at most MaxReplayFailures errors
Replays(h, e) ==
    /\ e.res = "err" => Len(SelectSeq(h, LAMBDA x : x.res = "err")) < MaxReplayFailures
    /\ vrun = 2 =>
          LET k == Len(SelectSeq(h, LAMBDA x : SameRequest(x, e)))
              firsts == SelectSeq(vfirst.hist, LAMBDA x : SameRequest(x, e))
          IN  k < Len(firsts) /\ firsts[k + 1] = e

\* the history after the requests es
Record(h, es) == IF vrun = 0 THEN h ELSE h \o es

NoFirst == [hist |-> <<>>, vpcs |-> <<>>, outcome |-> "none"]

\* ls-vpc cli.rs: the Cli handed to Config::try_from; besides the ids of the
\* provider's networks, an id that is shorter than the prefix and one that
\* holds the prefix but does not start with it
NotVpcId == <<"v", "p", "c">>
IdHoldingPrefix == <<"i", "-">> \o VpcPrefix
VpcCliInputs ==
    [regions : SeqsUpTo(VpcRegionInputs, MaxVpcRegions),
     vpc_ids : SeqsUpTo(VpcIdInputs \cup {NotVpcId, IdHoldingPrefix}, MaxVpcIds)]

\* mutant of VpcConfigTryFrom: the format of the ids is not validated
VpcConfigTryFromUnchecked(c) ==
    IF c.regions = <<>>
    THEN [ok |-> FALSE, val |-> "At least one region must be specified"]
    ELSE [ok |-> TRUE,
          val |-> [regions |-> c.regions, vpc_ids |-> c.vpc_ids,
                   summary_only |-> (c.vpc_ids = <<>>)]]

\* ls-vpc config.rs: Config::try_from(cli)
VpcConfigTryFrom(c) ==
    IF c.regions = <<>>
    THEN [ok |-> FALSE, val |-> "At least one region must be specified"]
    ELSE IF \E i \in 1..Len(c.vpc_ids) : ~StartsWith(c.vpc_ids[i], VpcPrefix)
    THEN [ok |-> FALSE, val |-> "Invalid VPC ID format"]
    ELSE [ok |-> TRUE,
          val |-> [regions |-> c.regions, vpc_ids |-> c.vpc_ids,
                   summary_only |-> (c.vpc_ids = <<>>)]]

\* the Configs run is called with: those Config::try_from returns
VpcConfigs == {VpcConfigTryFrom(c).val : c \in {x \in VpcCliInputs : VpcConfigTryFrom(x).ok}}

------------------------------------------------------------------------------
(* ls-vpc lib.rs: run *)

VRegion == vcfg.regions[vri]
VId == vlist[vni][1]

\* run fails: the ? on a failed call returns Err
VpcFail ==
    /\ vpc' = "done"
    /\ voutcome' = "err"

\* list_vpcs with an empty filter: list_all_vpcs, one DescribeVpcs request
\* whose next_token is not read
VpcListAll ==
    /\ vpc = "list"
    /\ vcfg.vpc_ids = <<>>
    /\ \E ok \in BOOLEAN, n \in 1..MaxVpcPage :
        LET e == VResp("DescribeVpcs", VRegion, <<>>, IF ok THEN "ok" ELSE "err",
                       IF ok THEN DescribeVpcsPage(VRegion, n).vpcs ELSE <<>>)
        IN
        /\ Replays(vhist, e)
        /\ vhist' = Record(vhist, <<e>>)
        /\ vcalls' = Append(vcalls, VCall("DescribeVpcs", <<>>, IF ok THEN "ok" ELSE "err"))
        /\ IF ok
           THEN /\ vlist' = list_all_vpcs(DescribeVpcsPage(VRegion, n))
                /\ vpc' = "net"
                /\ voutcome' = voutcome
           ELSE /\ VpcFail
                /\ vlist' = vlist
    /\ vni' = 1
    /\ UNCHANGED <<vcfg, vrun, vfirst, vri, vfi, summary, vsi, vpcs>>
    /\ UNCHANGED <<rdsVars, fnVars>>

\* what the provider answers to DescribeVpcs with vpc_ids(id)
DescribeVpcsByIdOutcomes(region, id) ==
    {"err"} \cup (IF DescribeVpcsById(region, id) = <<>> THEN {"notfound"} ELSE {"ok"})

\* mutant of VpcListFilteredId: the NotFound code is not recognised and the
\* error is returned like any other
VpcListFilteredIdNotFoundFatal ==
    /\ vpc = "list"
    /\ vcfg.vpc_ids # <<>>
    /\ vfi <= Len(vcfg.vpc_ids)
    /\ LET id == vcfg.vpc_ids[vfi]
       IN  \E res \in DescribeVpcsByIdOutcomes(VRegion, id) :
            /\ Replays(vhist, VResp("DescribeVpcs", VRegion, id, res, <<>>))
            /\ vhist' = Record(vhist, <<VResp("DescribeVpcs", VRegion, id, res, <<>>)>>)
            /\ vcalls' = Append(vcalls, VCall("DescribeVpcs", id, res))
            /\ IF res = "ok"
               THEN LET resp == DescribeVpcsById(VRegion, id)
                    IN  /\ vlist' = vlist \o [i \in 1..Len(resp) |-> VpcEntry(resp[i])]
                        /\ UNCHANGED <<vpc, voutcome>>
               ELSE /\ VpcFail
                    /\ vlist' = vlist
    /\ vfi' = vfi + 1
    /\ UNCHANGED <<vcfg, vrun, vfirst, vri, vni, summary, vsi, vpcs>>
    /\ UNCHANGED <<rdsVars, fnVars>>

\* list_filtered_vpcs: one iteration of the filter loop
VpcListFilteredId ==
    /\ vpc = "list"
    /\ vcfg.vpc_ids # <<>>
    /\ vfi <= Len(vcfg.vpc_ids)
    /\ LET id == vcfg.vpc_ids[vfi]
       IN  \E res \in DescribeVpcsByIdOutcomes(VRegion, id) :
            /\ Replays(vhist, VResp("DescribeVpcs", VRegion, id, res, <<>>))
            /\ vhist' = Record(vhist, <<VResp("DescribeVpcs", VRegion, id, res, <<>>)>>)
            /\ vcalls' = Append(vcalls, VCall("DescribeVpcs", id, res))
            /\ CASE res = "ok" ->
                      LET resp == DescribeVpcsById(VRegion, id)
                      IN  /\ vlist' = vlist \o [i \in 1..Len(resp) |-> VpcEntry(resp[i])]
                          /\ UNCHANGED <<vpc, voutcome>>
                 [] res = "notfound" ->
                      UNCHANGED <<vlist, vpc, voutcome>>
                 [] OTHER ->
                      /\ VpcFail
                      /\ vlist' = vlist
    /\ vfi' = vfi + 1
    /\ UNCHANGED <<vcfg, vrun, vfirst, vri, vni, summary, vsi, vpcs>>
    /\ UNCHANGED <<rdsVars, fnVars>>

\* list_filtered_vpcs returns Ok(out)
VpcListFilteredReturn ==
    /\ vpc = "list"
    /\ vcfg.vpc_ids # <<>>
    /\ vfi > Len(vcfg.vpc_ids)
    /\ vpc' = "net"
    /\ vni' = 1
    /\ UNCHANGED <<vcfg, vrun, vfirst, vhist, vri, vfi, vlist, summary, vsi, vpcs, vcalls, voutcome>>
    /\ UNCHANGED <<rdsVars, fnVars>>

\* run: the next (vpc_id, vpc_name) of the list
VpcNextNetwork ==
    /\ vpc = "net"
    /\ vni <= Len(vlist)
    /\ vpc' = "peers"
    /\ summary' = VpcSummary(vlist[vni][2], FALSE, <<>>, <<>>, <<>>)
    /\ vcalls' = <<>>
    /\ UNCHANGED <<vcfg, vrun, vfirst, vhist, vri, vfi, vlist, vni, vsi, vpcs, voutcome>>
    /\ UNCHANGED <<rdsVars, fnVars>>

\* run: the list of the region is exhausted; next region or Ok(ScanResult)
VpcRegionEnd ==
    /\ vpc = "net"
    /\ vni > Len(vlist)
    /\ vri' = vri + 1
    /\ vfi' = 1
    /\ vlist' = <<>>
    /\ vcalls' = <<>>
    /\ IF vri + 1 > Len(vcfg.regions)
       THEN /\ vpc' = "done"
            /\ voutcome' = "ok"
       ELSE /\ vpc' = "list"
            /\ voutcome' = voutcome
    /\ UNCHANGED <<vcfg, vrun, vfirst, vhist, vni, summary, vsi, vpcs>>
    /\ UNCHANGED <<rdsVars, fnVars>>

\* run: get_peer_vpcs(...).await? ; failAt is the collect_peers call that fails
VpcGetPeers ==
    /\ vpc = "peers"
    /\ \E failAt \in 0..2 :
        LET e1 == VResp("DescribeVpcPeeringConnections", VRegion, <<"requester", VId>>,
                        IF failAt = 1 THEN "err" ELSE "ok", <<>>)
            e2 == VResp("DescribeVpcPeeringConnections", VRegion, <<"accepter", VId>>,
                        IF failAt = 2 THEN "err" ELSE "ok", <<>>)
        IN
        /\ Replays(vhist, e1)
        /\ failAt # 1 => Replays(Record(vhist, <<e1>>), e2)
        /\ vhist' = Record(vhist, IF failAt = 1 THEN <<e1>> ELSE <<e1, e2>>)
        /\ vcalls' = vcalls
              \o <<VCall("DescribeVpcPeeringConnections", "requester",
                         IF failAt = 1 THEN "err" ELSE "ok")>>
              \o (IF failAt = 1 THEN <<>>
                  ELSE <<VCall("DescribeVpcPeeringConnections", "accepter",
                               IF failAt = 2 THEN "err" ELSE "ok")>>)
        /\ IF failAt = 0
           THEN /\ summary' = [summary EXCEPT !.peers = get_peer_vpcs(PeeringConnections(VRegion), VId)]
                /\ vpc' = "public"
                /\ voutcome' = voutcome
           ELSE /\ VpcFail
                /\ summary' = summary
    /\ UNCHANGED <<vcfg, vrun, vfirst, vri, vfi, vlist, vni, vsi, vpcs>>
    /\ UNCHANGED <<rdsVars, fnVars>>

\* run: public: is_public(...).await?
VpcIsPublic ==
    /\ vpc = "public"
    /\ \E ok \in BOOLEAN :
        LET e == VResp("DescribeInternetGateways", VRegion, VId,
                       IF ok THEN "ok" ELSE "err", <<>>)
        IN
        /\ Replays(vhist, e)
        /\ vhist' = Record(vhist, <<e>>)
        /\ vcalls' = Append(vcalls, VCall("DescribeInternetGateways", VId,
                                          IF ok THEN "ok" ELSE "err"))
        /\ IF ok
           THEN /\ summary' = [summary EXCEPT !.public = is_public(VRegion, VId)]
                /\ vpc' = "cidrs"
                /\ voutcome' = voutcome
           ELSE /\ VpcFail
                /\ summary' = summary
    /\ UNCHANGED <<vcfg, vrun, vfirst, vri, vfi, vlist, vni, vsi, vpcs>>
    /\ UNCHANGED <<rdsVars, fnVars>>

\* mutant of VpcGetCidrs: summary_only is not tested before the scanner loop
VpcGetCidrsAlwaysScans ==
    /\ vpc = "cidrs"
    /\ \E ok \in BOOLEAN :
        LET e == VResp("DescribeVpcs", VRegion, VId, IF ok THEN "ok" ELSE "err", <<>>)
        IN
        /\ Replays(vhist, e)
        /\ vhist' = Record(vhist, <<e>>)
        /\ vcalls' = Append(vcalls, VCall("DescribeVpcs", VId, IF ok THEN "ok" ELSE "err"))
        /\ IF ok
           THEN /\ summary' = [summary EXCEPT !.cidrs = get_cidrs(DescribeVpcsById(VRegion, VId))]
                /\ vpc' = "scan"
                /\ voutcome' = voutcome
           ELSE /\ VpcFail
                /\ summary' = summary
    /\ vsi' = 1
    /\ UNCHANGED <<vcfg, vrun, vfirst, vri, vfi, vlist, vni, vpcs>>
    /\ UNCHANGED <<rdsVars, fnVars>>

\* run: cidrs: get_cidrs(...).await? and the test of summary_only
VpcGetCidrs ==
    /\ vpc = "cidrs"
    /\ \E ok \in BOOLEAN :
        LET e == VResp("DescribeVpcs", VRegion, VId, IF ok THEN "ok" ELSE "err", <<>>)
        IN
        /\ Replays(vhist, e)
        /\ vhist' = Record(vhist, <<e>>)
        /\ vcalls' = Append(vcalls, VCall("DescribeVpcs", VId, IF ok THEN "ok" ELSE "err"))
        /\ IF ok
           THEN /\ summary' = [summary EXCEPT !.cidrs = get_cidrs(DescribeVpcsById(VRegion, VId))]
                /\ vpc' = IF vcfg.summary_only THEN "insert" ELSE "scan"
                /\ voutcome' = voutcome
           ELSE /\ VpcFail
                /\ summary' = summary
    /\ vsi' = 1
    /\ UNCHANGED <<vcfg, vrun, vfirst, vri, vfi, vlist, vni, vpcs>>
    /\ UNCHANGED <<rdsVars, fnVars>>

NumCalls(s) == Len(ScannerCalls(s, <<>>, <<>>))

\* mutant of VpcScan: the scanner's error is returned with ?
VpcScanPropagates ==
    /\ vpc = "scan"
    /\ vsi <= Len(Scanners)
    /\ \E failAt \in 0..NumCalls(Scanners[vsi]) :
        LET res == Scan(Scanners[vsi], VRegion, VId, failAt)
            e == VResp(Scanners[vsi], VRegion, VId, IF res = None THEN "err" ELSE "ok", failAt)
        IN  /\ Replays(vhist, e)
            /\ vhist' = Record(vhist, <<e>>)
            /\ vcalls' = Append(vcalls, VCall(Scanners[vsi], VId,
                                              IF res = None THEN "err" ELSE "ok"))
            /\ summary' = IF res = None THEN summary
                          ELSE [summary EXCEPT !.resources = summary.resources \o res[1]]
            /\ IF res = None
               THEN VpcFail
               ELSE /\ vpc' = IF vsi + 1 > Len(Scanners) THEN "insert" ELSE "scan"
                    /\ voutcome' = voutcome
    /\ vsi' = vsi + 1
    /\ UNCHANGED <<vcfg, vrun, vfirst, vri, vfi, vlist, vni, vpcs>>
    /\ UNCHANGED <<rdsVars, fnVars>>

\* mutant of VpcScan: a scanner that failed is invoked again
VpcScanRetries ==
    /\ vpc = "scan"
    /\ vsi <= Len(Scanners)
    /\ \E failAt \in 0..NumCalls(Scanners[vsi]) :
        LET res == Scan(Scanners[vsi], VRegion, VId, failAt)
            e == VResp(Scanners[vsi], VRegion, VId, IF res = None THEN "err" ELSE "ok", failAt)
        IN  /\ Replays(vhist, e)
            /\ vhist' = Record(vhist, <<e>>)
            /\ vcalls' = Append(vcalls, VCall(Scanners[vsi], VId,
                                              IF res = None THEN "err" ELSE "ok"))
            /\ summary' = IF res = None THEN summary
                          ELSE [summary EXCEPT !.resources = summary.resources \o res[1]]
            /\ vsi' = IF res = None THEN vsi ELSE vsi + 1
            /\ vpc' = IF vsi' > Len(Scanners) THEN "insert" ELSE "scan"
    /\ UNCHANGED <<vcfg, vrun, vfirst, vri, vfi, vlist, vni, vpcs, voutcome>>
    /\ UNCHANGED <<rdsVars, fnVars>>

\* run: one iteration of the scanner loop
VpcScan ==
    /\ vpc = "scan"
    /\ vsi <= Len(Scanners)
    /\ \E failAt \in 0..NumCalls(Scanners[vsi]) :
        LET res == Scan(Scanners[vsi], VRegion, VId, failAt)
            e == VResp(Scanners[vsi], VRegion, VId, IF res = None THEN "err" ELSE "ok", failAt)
        IN  /\ Replays(vhist, e)
            /\ vhist' = Record(vhist, <<e>>)
            /\ vcalls' = Append(vcalls, VCall(Scanners[vsi], VId,
                                              IF res = None THEN "err" ELSE "ok"))
            /\ summary' = IF res = None THEN summary
                          ELSE [summary EXCEPT !.resources = summary.resources \o res[1]]
    /\ vsi' = vsi + 1
    /\ vpc' = IF vsi + 1 > Len(Scanners) THEN "insert" ELSE "scan"
    /\ UNCHANGED <<vcfg, vrun, vfirst, vri, vfi, vlist, vni, vpcs, voutcome>>
    /\ UNCHANGED <<rdsVars, fnVars>>

\* mutant of VpcInsert: the resources are in the order in which concurrent
\* scanners happened to finish
VpcInsertAnyOrder ==
    /\ vpc = "insert"
    /\ \E rev \in BOOLEAN :
        LET r == summary.resources
            s == IF rev THEN [i \in 1..Len(r) |-> r[Len(r) + 1 - i]] ELSE r
        IN  vpcs' = BTreeInsert(vpcs, <<VRegion, VId>>, [summary EXCEPT !.resources = s])
    /\ vni' = vni + 1
    /\ vpc' = "net"
    /\ UNCHANGED <<vcfg, vrun, vfirst, vhist, vlist, vfi, vri, summary, vsi, vcalls, voutcome>>
    /\ UNCHANGED <<rdsVars, fnVars>>

\* run: vpcs.insert((region, vpc_id), summary)
VpcInsert ==
    /\ vpc = "insert"
    /\ vpcs' = BTreeInsert(vpcs, <<VRegion, VId>>, summary)
    /\ vni' = vni + 1
    /\ vpc' = "net"
    /\ UNCHANGED <<vcfg, vrun, vfirst, vhist, vri, vfi, vlist, summary, vsi, vcalls, voutcome>>
    /\ UNCHANGED <<rdsVars, fnVars>>

------------------------------------------------------------------------------
(* ls-vpc lib.rs: get_peer_vpcs and get_cidrs called on their own *)

VpcC == VpcPrefix \o <<"c">>

\* the status codes a peering connection can carry; None is a missing status
PeeringCodes == {Some("active"), Some("pending-acceptance"), Some("rejected"),
                 Some("deleted"), None}

\* the two sides of a connection: VpcA is the network asked about
PeeringSides == {<<Some(VpcA), Some(VpcB)>>, <<Some(VpcB), Some(VpcA)>>,
                 <<Some(VpcA), Some(VpcC)>>, <<Some(VpcC), Some(VpcA)>>,
                 <<Some(VpcB), Some(VpcC)>>,
                 <<Some(VpcA), None>>, <<None, Some(VpcA)>>}

PeeringInputs == {Peering(c, s[1], s[2]) : c \in PeeringCodes, s \in PeeringSides}

Cidr10 == <<"1", "0">>
Cidr11 == <<"1", "1">>
Cidr2 == <<"2">>
CidrV6 == <<"a", ":", ":">>
CidrInputs == {Cidr10, Cidr11, Cidr2}

\* the responses of DescribeVpcs with vpc_ids(VpcA): no network or one network
VpcResponses ==
    {<<>>} \cup
    {<<Vpc(Some(VpcA), None, primary, assoc, ipv6)>> :
        primary \in {None} \cup {Some(c) : c \in CidrInputs},
        assoc \in SeqsUpTo({None} \cup {Some(c) : c \in CidrInputs}, MaxAssoc),
        ipv6 \in SeqsUpTo({None, Some(CidrV6)}, MaxIpv6)}

\* [String]::join(sep)
RECURSIVE Join(_, _)
Join(ss, sep) ==
    IF ss = <<>> THEN <<>>
    ELSE IF Len(ss) = 1 THEN ss[1]
    ELSE ss[1] \o sep \o Join(Tail(ss), sep)

\* utils.rs wrap_identifier: the loop over the segments, with the lines pushed
\* so far and the line being filled
RECURSIVE WrapSegments(_, _, _, _, _)
WrapSegments(segments, delim, max_width, lines, current) ==
    IF segments = <<>>
    THEN IF current # <<>> THEN Append(lines, current) ELSE lines
    ELSE LET seg == Head(segments)
             extra == IF current = <<>> THEN Len(seg) ELSE 1 + Len(seg)
         IN  IF current # <<>> /\ Len(current) + extra > max_width
             THEN WrapSegments(Tail(segments), delim, max_width,
                               Append(lines, Append(current, delim)),
                               <<" ", " ">> \o seg)
             ELSE WrapSegments(Tail(segments), delim, max_width, lines,
                               (IF current # <<>> THEN Append(current, delim) ELSE current)
                                   \o seg)

\* the delimiter wrap_identifier breaks on
WrapDelim(ident) == IF \E i \in 1..Len(ident) : ident[i] = "/" THEN "/" ELSE ":"

\* utils.rs wrap_identifier(ident, max_width)
wrap_identifier(ident, max_width) ==
    IF max_width < 10 \/ Len(ident) <= max_width
    THEN ident
    ELSE Join(WrapSegments(Split(ident, WrapDelim(ident)), WrapDelim(ident), max_width,
                           <<>>, <<>>),
              <<"\n">>)

\* identifiers: up to MaxSegments segments joined by '/' or by ':'; a segment
\* may be empty or hold the other delimiter
SegmentInputs == {<<>>, <<"c", "c">>, <<"a", "a", "a", "a">>, <<"b", "b", "b", "b", "b">>,
                  <<"a", ":", "b">>}
IdentInputs ==
    {Join(segs, <<d>>) : segs \in SeqsUpTo(SegmentInputs, MaxSegments) \ {<<>>},
                         d \in {"/", ":"}}
WidthInputs == 9..MaxWidth

\* Result<T>
Ok(x) == [ok |-> TRUE, val |-> x]
Err == [ok |-> FALSE, val |-> <<>>]

\* get_peer_vpcs(conf, vpc_id): failAt is the collect_peers call that fails
CallGetPeerVpcs ==
    /\ fcall = "get_peer_vpcs"
    /\ fres = None
    /\ \E failAt \in 0..2 :
        fres' = Some(IF failAt = 0 THEN Ok(get_peer_vpcs(farg.conns, farg.vpc_id)) ELSE Err)
    /\ UNCHANGED <<fcall, farg>>
    /\ UNCHANGED <<rdsVars, vpcVars>>

\* main.rs peering_status(conf, vpc_id)
CallPeeringStatus ==
    /\ fcall = "peering_status"
    /\ fres = None
    /\ \E ok \in BOOLEAN :
        fres' = Some(IF ok THEN Ok(peering_status(farg.conns, farg.vpc_id)) ELSE Err)
    /\ UNCHANGED <<fcall, farg>>
    /\ UNCHANGED <<rdsVars, vpcVars>>

\* ls-vpc Config::try_from(cli)
CallVpcTryFrom ==
    /\ fcall = "Config::try_from"
    /\ fres = None
    /\ fres' = Some(VpcConfigTryFrom(farg))
    /\ UNCHANGED <<fcall, farg>>
    /\ UNCHANGED <<rdsVars, vpcVars>>

\* wrap_identifier(ident, max_width)
CallWrapIdentifier ==
    /\ fcall = "wrap_identifier"
    /\ fres = None
    /\ fres' = Some(wrap_identifier(farg.ident, farg.max_width))
    /\ UNCHANGED <<fcall, farg>>
    /\ UNCHANGED <<rdsVars, vpcVars>>

\* get_cidrs(conf, vpc_id)
CallGetCidrs ==
    /\ fcall = "get_cidrs"
    /\ fres = None
    /\ \E ok \in BOOLEAN :
        fres' = Some(IF ok THEN Ok(get_cidrs(farg.resp)) ELSE Err)
    /\ UNCHANGED <<fcall, farg>>
    /\ UNCHANGED <<rdsVars, vpcVars>>

------------------------------------------------------------------------------
(* Specifications *)

RdsStart ==
    /\ cli \in CliInputs
    /\ cfg = CfgErr("")
    /\ pc = "cli"
    /\ caller_account = <<>>
    /\ regions = <<>>
    /\ instances = <<>>
    /\ local = <<>>
    /\ role_arn = <<>>
    /\ ret = "run"
    /\ ri = 1
    /\ ai = 1
    /\ page = NoPage
    /\ ki = 1
    /\ listed = 0
    /\ calls = <<>>
    /\ outcome = "none"

RdsIdle ==
    /\ cli = CliMoved
    /\ cfg = CfgErr("")
    /\ pc = "idle"
    /\ caller_account = <<>>
    /\ regions = <<>>
    /\ instances = <<>>
    /\ local = <<>>
    /\ role_arn = <<>>
    /\ ret = "run"
    /\ ri = 1
    /\ ai = 1
    /\ page = NoPage
    /\ ki = 1
    /\ listed = 0
    /\ calls = <<>>
    /\ outcome = "none"

VpcStart ==
    /\ vcfg \in VpcConfigs
    /\ vpc = "list"
    /\ vri = 1
    /\ vfi = 1
    /\ vlist = <<>>
    /\ vni = 1
    /\ summary = NoSummary
    /\ vsi = 1
    /\ vpcs = <<>>
    /\ vcalls = <<>>
    /\ voutcome = "none"
    /\ vhist = <<>>
    /\ vrun = 0
    /\ vfirst = NoFirst

VpcIdle ==
    /\ vcfg = [regions |-> <<>>, vpc_ids |-> <<>>, summary_only |-> TRUE]
    /\ vpc = "idle"
    /\ vri = 1
    /\ vfi = 1
    /\ vlist = <<>>
    /\ vni = 1
    /\ summary = NoSummary
    /\ vsi = 1
    /\ vpcs = <<>>
    /\ vcalls = <<>>
    /\ voutcome = "none"
    /\ vhist = <<>>
    /\ vrun = 0
    /\ vfirst = NoFirst

FnStart ==
    /\ fres = None
    /\ \/ /\ fcall = "Config::try_from"
          /\ farg \in VpcCliInputs
       \/ /\ fcall = "wrap_identifier"
          /\ farg \in [ident : IdentInputs, max_width : WidthInputs]
       \/ /\ fcall \in {"get_peer_vpcs", "peering_status"}
          /\ farg \in [conns : SeqsUpTo(PeeringInputs, MaxPeerings), vpc_id : {VpcA}]
       \/ /\ fcall = "get_cidrs"
          /\ farg \in [resp : VpcResponses, vpc_id : {VpcA}]

FnIdle ==
    /\ fcall = "none"
    /\ farg = <<>>
    /\ fres = None

\* ls-rds: Config::try_from followed by run
InitRds == RdsStart /\ VpcIdle /\ FnIdle
NextRds ==
    \/ TryFrom
    \/ GetCallerAccount
    \/ ListRdsRegion
    \/ ListRdsReturn
    \/ ScanAccountRegion
    \/ ScanAccountReturn
    \/ RoleArnNext
    \/ RoleArnsReturn
    \/ OrgFetchPage
    \/ OrgNextAccount
    \/ OrgPageEnd
SpecRds == InitRds /\ [][NextRds]_vars

\* ls-vpc: run on a validated Config
InitVpc == VpcStart /\ RdsIdle /\ FnIdle
NextVpc ==
    \/ VpcListAll
    \/ VpcListFilteredId
    \/ VpcListFilteredReturn
    \/ VpcNextNetwork
    \/ VpcRegionEnd
    \/ VpcGetPeers
    \/ VpcIsPublic
    \/ VpcGetCidrs
    \/ VpcScan
    \/ VpcInsert
SpecVpc == InitVpc /\ [][NextVpc]_vars

\* run is called a second time with the same Config
VpcRunAgain ==
    /\ vpc = "done"
    /\ vrun = 1
    /\ vrun' = 2
    /\ vfirst' = [hist |-> vhist, vpcs |-> vpcs, outcome |-> voutcome]
    /\ vpc' = "list"
    /\ vri' = 1
    /\ vfi' = 1
    /\ vlist' = <<>>
    /\ vni' = 1
    /\ summary' = NoSummary
    /\ vsi' = 1
    /\ vpcs' = <<>>
    /\ vcalls' = <<>>
    /\ voutcome' = "none"
    /\ vhist' = <<>>
    /\ UNCHANGED vcfg
    /\ UNCHANGED <<rdsVars, fnVars>>

\* ls-vpc: run called twice on the same Config, the provider answering the
\* second call as it answered the first
VpcStartRecorded ==
    /\ vcfg \in VpcConfigs
    /\ vpc = "list"
    /\ vri = 1
    /\ vfi = 1
    /\ vlist = <<>>
    /\ vni = 1
    /\ summary = NoSummary
    /\ vsi = 1
    /\ vpcs = <<>>
    /\ vcalls = <<>>
    /\ voutcome = "none"
    /\ vhist = <<>>
    /\ vrun = 1
    /\ vfirst = NoFirst
InitVpcTwice == VpcStartRecorded /\ RdsIdle /\ FnIdle
NextVpcTwice ==
    \/ VpcListAll
    \/ VpcListFilteredId
    \/ VpcListFilteredReturn
    \/ VpcNextNetwork
    \/ VpcRegionEnd
    \/ VpcGetPeers
    \/ VpcIsPublic
    \/ VpcGetCidrs
    \/ VpcScan
    \/ VpcInsert
    \/ VpcRunAgain
SpecVpcTwice == InitVpcTwice /\ [][NextVpcTwice]_vars

\* either program: one run of ls-rds or one run of ls-vpc
InitAny == InitRds \/ InitVpc
NextAny ==
    \/ TryFrom
    \/ GetCallerAccount
    \/ ListRdsRegion
    \/ ListRdsReturn
    \/ ScanAccountRegion
    \/ ScanAccountReturn
    \/ RoleArnNext
    \/ RoleArnsReturn
    \/ OrgFetchPage
    \/ OrgNextAccount
    \/ OrgPageEnd
    \/ VpcListAll
    \/ VpcListFilteredId
    \/ VpcListFilteredReturn
    \/ VpcNextNetwork
    \/ VpcRegionEnd
    \/ VpcGetPeers
    \/ VpcIsPublic
    \/ VpcGetCidrs
    \/ VpcScan
    \/ VpcInsert
SpecAny == InitAny /\ [][NextAny]_vars

\* ls-vpc: one call of get_peer_vpcs or get_cidrs
InitFn == FnStart /\ RdsIdle /\ VpcIdle
NextFn ==
    \/ CallVpcTryFrom
    \/ CallWrapIdentifier
    \/ CallGetPeerVpcs
    \/ CallPeeringStatus
    \/ CallGetCidrs
SpecFn == InitFn /\ [][NextFn]_vars

------------------------------------------------------------------------------
(* Properties of ls-vpc run *)

\* C1: in detail mode a scanner that returns an error contributes no record
\* and nothing else changes: every registered scanner is still invoked for the
\* network, the record inserted for (region, network-id) holds the records of
\* every scanner that succeeded, the later networks and regions are processed,
\* and run fails only when a call other than a scanner call failed.
C1_ScannerFailureIsolated ==
    LET scanLog == SelectSeq(vcalls, LAMBDA c : \E i \in 1..Len(Scanners) : c.op = Scanners[i])
        expected(i) == IF scanLog[i].res = "ok"
                       THEN Flatten(ScannerCalls(Scanners[i], VRegion, VId))
                       ELSE <<>>
    IN  /\ voutcome = "err" =>
              /\ vcalls # <<>>
              /\ vcalls[Len(vcalls)].res = "err"
              /\ \A i \in 1..Len(Scanners) : vcalls[Len(vcalls)].op # Scanners[i]
        /\ (vpc = "scan" /\ Len(scanLog) > 0) => scanLog[Len(scanLog)].op = Scanners[vsi - 1]
        /\ (vpc = "insert" /\ ~vcfg.summary_only) =>
              /\ Len(scanLog) = Len(Scanners)
              /\ \A i \in 1..Len(Scanners) : scanLog[i].op = Scanners[i]
              /\ summary.resources = Flatten([i \in 1..Len(Scanners) |-> expected(i)])
        /\ (vpc = "net" /\ vni > 1) =>
              \E e \in 1..Len(vpcs) :
                  /\ vpcs[e].key = <<VRegion, vlist[vni - 1][1]>>
                  /\ vpcs[e].val = summary
        /\ voutcome = "ok" => (vpc = "done" /\ vri = Len(vcfg.regions) + 1)
        /\ vpc = "scan" => vsi \in 1..Len(Scanners)

\* C1 witness: a network whose record is about to be inserted after one scanner
\* failed and a later one delivered records, with another region still to scan
C1_Witness ==
    /\ vpc = "insert"
    /\ ~vcfg.summary_only
    /\ vri < Len(vcfg.regions)
    /\ summary.resources # <<>>
    /\ \E i, j \in 1..Len(vcalls) :
          /\ i < j
          /\ vcalls[i].op = "Ec2Scanner" /\ vcalls[i].res = "err"
          /\ vcalls[j].op = "RdsScanner" /\ vcalls[j].res = "ok"

\* C10: with explicit network-ids, an id the region answers NotFound for is
\* skipped: the remaining ids are still resolved, the list holds exactly the
\* networks of the ids that were found, no map entry exists for an absent
\* (region, id), and NotFound never makes run fail.
C10_NotFoundSkipped ==
    LET found(i) == IF vcalls[i].res = "ok"
                    THEN LET resp == DescribeVpcsById(VRegion, vcfg.vpc_ids[i])
                         IN  [k \in 1..Len(resp) |-> VpcEntry(resp[k])]
                    ELSE <<>>
    IN  /\ voutcome = "err" => (vcalls # <<>> /\ vcalls[Len(vcalls)].res = "err")
        /\ (vpc = "net" /\ vni = 1 /\ vcfg.vpc_ids # <<>>) =>
              /\ Len(vcalls) = Len(vcfg.vpc_ids)
              /\ \A i \in 1..Len(vcalls) :
                    /\ vcalls[i].op = "DescribeVpcs"
                    /\ vcalls[i].arg = vcfg.vpc_ids[i]
                    /\ vcalls[i].res \in {"ok", "notfound"}
                    /\ vcalls[i].res = "notfound" =>
                          \A k \in 1..Len(vlist) : vlist[k][1] # vcfg.vpc_ids[i]
              /\ vlist = Flatten([i \in 1..Len(vcalls) |-> found(i)])
        /\ \A e \in 1..Len(vpcs) : DescribeVpcsById(vpcs[e].key[1], vpcs[e].key[2]) # <<>>
        /\ voutcome = "ok" => (vpc = "done" /\ vri = Len(vcfg.regions) + 1)

\* C10 witness: a region where the first id was NotFound and a later id was
\* found and is about to be scanned
C10_Witness ==
    /\ vpc = "net"
    /\ vni = 1
    /\ Len(vcalls) = 2
    /\ vcalls[1].res = "notfound"
    /\ vcalls[2].res = "ok"
    /\ vlist # <<>>

------------------------------------------------------------------------------
(* Properties of ls-rds *)

\* C2: in explicit-identifier mode no delegated-credential provider is ever
\* built for an identifier whose account-id (colon field 4) equals the caller's
\* account-id, and the regions of such an identifier are listed with the
\* ambient credentials, one DescribeDBInstances call per region.
C2_SelfScopeUsesAmbient ==
    (cfg.ok /\ cfg.mode.kind = "RoleArns") =>
        /\ \A i \in 1..Len(calls) :
              calls[i].op = "AssumeRoleProvider" =>
                  extract_account_from_arn(calls[i].arn) # Some(caller_account)
        /\ (pc = "arns" /\ ai > 1
              /\ extract_account_from_arn(cfg.mode.arns[ai - 1]) = Some(caller_account)) =>
              /\ Len(calls) >= Len(regions)
              /\ \A r \in 1..Len(regions) :
                    LET c == calls[Len(calls) - Len(regions) + r]
                    IN  c.op = "DescribeDBInstances" /\ c.prov = 0 /\ c.region = regions[r]

\* C2 witness: a finished run in which an identifier of the caller's own
\* account was listed with the ambient credentials
C2_Witness ==
    /\ pc = "done"
    /\ outcome = "ok"
    /\ cfg.mode.kind = "RoleArns"
    /\ \E i \in 1..Len(cfg.mode.arns) :
          extract_account_from_arn(cfg.mode.arns[i]) = Some(caller_account)
    /\ \E i \in 1..Len(calls) :
          calls[i].op = "DescribeDBInstances" /\ calls[i].prov = 0 /\ calls[i].ok

\* C3: in organization mode no delegated-credential provider is built for the
\* caller's own account.
C3_OrgNoSelfAssumption ==
    (cfg.ok /\ cfg.mode.kind = "Organization") =>
        \A i \in 1..Len(calls) :
            calls[i].op = "AssumeRoleProvider" =>
                extract_account_from_arn(calls[i].arn) # Some(caller_account)

\* C4: scan_account builds exactly one provider per region it scans; the
\* provider is built for that region and is used by exactly one call, the
\* DescribeDBInstances call of that same region.
C4_ProviderPerRegion ==
    /\ \A i \in 1..Len(calls) :
          calls[i].op = "AssumeRoleProvider" =>
              /\ \A j \in 1..Len(calls) :
                    (calls[j].op = "AssumeRoleProvider" /\ calls[j].prov = calls[i].prov) => j = i
              /\ i + 1 <= Len(calls)
              /\ calls[i + 1].op = "DescribeDBInstances"
              /\ calls[i + 1].prov = calls[i].prov
              /\ calls[i + 1].region = calls[i].region
              /\ calls[i + 1].arn = calls[i].arn
    /\ \A j \in 1..Len(calls) :
          (calls[j].op = "DescribeDBInstances" /\ calls[j].prov # 0) =>
              /\ j > 1
              /\ calls[j - 1].op = "AssumeRoleProvider"
              /\ calls[j - 1].prov = calls[j].prov
              /\ calls[j - 1].region = calls[j].region
    /\ pc = "scan_account" =>
          /\ Len(calls) >= 2 * (ri - 1)
          /\ \A r \in 1..(ri - 1) :
                LET c == calls[Len(calls) - 2 * (ri - 1) + 2 * r - 1]
                IN  c.op = "AssumeRoleProvider" /\ c.arn = role_arn /\ c.region = regions[r]
    /\ (pc = "done" /\ outcome = "ok" /\ cfg.mode.kind = "RoleArns") =>
          ProvidersBuilt(calls) =
              Len(regions) * Cardinality({i \in 1..Len(cfg.mode.arns) :
                  extract_account_from_arn(cfg.mode.arns[i]) # Some(caller_account)})

\* C4 witness: a finished run that scanned a foreign account in two regions
C4_Witness ==
    /\ pc = "done"
    /\ outcome = "ok"
    /\ Len(regions) = 2
    /\ regions[1] # regions[2]
    /\ \E i, j \in 1..Len(calls) :
          /\ calls[i].op = "AssumeRoleProvider" /\ calls[j].op = "AssumeRoleProvider"
          /\ calls[i].arn = calls[j].arn
          /\ calls[i].region # calls[j].region

\* C5: a failed DescribeDBInstances for one (identifier, region) adds no record
\* and never fails the run; every region of every identifier is still listed,
\* and the records of every successful listing are kept, in order.
C5_ListingFailureIsolated ==
    LET acct(c) == IF c.prov = 0 THEN caller_account
                   ELSE UnwrapOrDefault(extract_account_from_arn(c.arn), <<>>)
        kept(c) == IF c.op = "DescribeDBInstances" /\ c.ok
                   THEN InstancesOf(DbTable(acct(c), c.region), c.region,
                                    IF c.prov = 0 THEN None ELSE Some(c.arn))
                   ELSE <<>>
        describes == Cardinality(SelectIdx(calls, LAMBDA c : c.op = "DescribeDBInstances"))
    IN  /\ outcome = "err" =>
              /\ calls # <<>>
              /\ calls[Len(calls)].op \in {"GetCallerIdentity", "ListAccounts"}
              /\ ~calls[Len(calls)].ok
        /\ outcome # "err" =>
              instances \o local = Flatten([i \in 1..Len(calls) |-> kept(calls[i])])
        /\ (pc = "done" /\ outcome = "ok" /\ cfg.mode.kind = "RoleArns") =>
              describes = Len(cfg.mode.arns) * Len(regions)
        /\ (pc = "done" /\ outcome = "ok" /\ cfg.mode.kind = "CurrentAccount") =>
              describes = Len(regions)
        /\ (pc = "done" /\ outcome = "ok" /\ cfg.mode.kind = "Organization") =>
              describes = ProvidersBuilt(calls)

\* C5 witness: a run that returned Ok with records although a listing failed
\* on the ambient path and another failed on the delegated path
C5_Witness ==
    /\ pc = "done"
    /\ outcome = "ok"
    /\ instances # <<>>
    /\ \E i, j \in 1..Len(calls) :
          /\ calls[i].op = "DescribeDBInstances" /\ calls[i].prov = 0 /\ ~calls[i].ok
          /\ calls[j].op = "DescribeDBInstances" /\ calls[j].prov # 0 /\ ~calls[j].ok

\* C6: GetCallerIdentity is the first call of run, and when it fails run
\* returns an error without any other call: no directory call, no provider,
\* no DescribeDBInstances.
C6_IdentityFailureIsFatal ==
    /\ calls # <<>> => calls[1].op = "GetCallerIdentity"
    /\ (calls # <<>> /\ ~calls[1].ok) =>
          /\ Len(calls) = 1
          /\ pc = "done"
          /\ outcome = "err"
          /\ instances = <<>>

\* C6 witness: run stopped by a failed GetCallerIdentity in organization mode
C6_Witness ==
    /\ outcome = "err"
    /\ cfg.mode.kind = "Organization"
    /\ Len(calls) = 1
    /\ ~calls[1].ok

\* C7: when a directory page fails, no account has been scanned yet: the log
\* holds no provider construction and no DescribeDBInstances call.
C7_DirectoryFailureBeforeScanning ==
    (calls # <<>> /\ calls[Len(calls)].op = "ListAccounts" /\ ~calls[Len(calls)].ok) =>
        /\ outcome = "err"
        /\ \A i \in 1..Len(calls) :
              calls[i].op \notin {"AssumeRoleProvider", "DescribeDBInstances"}

\* C8 (as stated): a malformed role identifier anywhere in the list makes
\* Config::try_from fail with the invalid-identifier error, in every mode, and
\* no remote call has been made.
C8_MalformedRejectedAsStated ==
    [][(pc = "cli" /\ \E i \in 1..Len(cli.role_arns) :
            ~StartsWith(cli.role_arns[i], ArnPrefix) \/ ~Contains(cli.role_arns[i], RoleMarker))
        => (/\ ~cfg'.ok
            /\ cfg'.err = "Invalid role ARN format"
            /\ pc' = "rejected"
            /\ calls' = <<>>)]_vars

\* C8 (amended): a malformed role identifier anywhere in the list makes
\* Config::try_from fail, in every mode, before any remote call; the error is
\* the invalid-identifier error when the region list is non-empty and the
\* region error when the region list is empty; a rejected Cli never runs.
C8_MalformedRejected ==
    /\ [][(pc = "cli" /\ \E i \in 1..Len(cli.role_arns) :
              ~StartsWith(cli.role_arns[i], ArnPrefix) \/ ~Contains(cli.role_arns[i], RoleMarker))
          => (/\ ~cfg'.ok
              /\ cfg'.err = IF cli.regions # <<>> THEN "Invalid role ARN format"
                            ELSE "At least one region must be specified"
              /\ pc' = "rejected"
              /\ calls' = <<>>)]_vars
    /\ [](pc = "rejected" => (calls = <<>> /\ outcome = "none"))

\* C8 witness: try_from has rejected a Cli for the format of an identifier
C8_Witness ==
    /\ pc = "rejected"
    /\ cfg.err = "Invalid role ARN format"
    /\ calls = <<>>

\* C9: every identifier accepted into ScanMode::RoleArns has exactly 6 colon
\* fields and extract_account_from_arn returns Some of field 4; for a string
\* with fewer than 5 colon fields extract_account_from_arn returns None.
C9_ValidatedArnHasSixFields ==
    /\ (cfg.ok /\ cfg.mode.kind = "RoleArns") =>
          \A i \in 1..Len(cfg.mode.arns) :
              LET fields == Split(cfg.mode.arns[i], Colon)
              IN  /\ Len(fields) = 6
                  /\ extract_account_from_arn(cfg.mode.arns[i]) = Some(fields[5])
    /\ \A i \in 1..Len(cli.role_arns) :
          Len(Split(cli.role_arns[i], Colon)) < 5 =>
              extract_account_from_arn(cli.role_arns[i]) = None

------------------------------------------------------------------------------
(* Properties of the ls-vpc functions *)

\* C11: with an empty explicit-id filter, the list list_vpcs returns for a
\* region holds every network visible in that region, however the provider
\* pages them, and no network-id twice.
C11_ListAllReturnsEveryNetwork ==
    (vpc = "net" /\ vcfg.vpc_ids = <<>>) =>
        LET visible == DescribeVpcs(VRegion)
        IN  /\ {vlist[i][1] : i \in 1..Len(vlist)}
                  = {UnwrapOrDefault(visible[i].vpc_id, <<>>) : i \in 1..Len(visible)}
            /\ \A i, j \in 1..Len(vlist) : vlist[i][1] = vlist[j][1] => i = j

\* the list get_peer_vpcs returned, when it has returned Ok
PeersReturned == fcall = "get_peer_vpcs" /\ fres # None /\ fres[1].ok

\* C12: every id in the list returned by get_peer_vpcs is the other side of a
\* connection of the given network whose status code is ACTIVE; a connection
\* with another code or with no status contributes no id.
C12_OnlyActivePeers ==
    PeersReturned =>
        \A i \in 1..Len(fres[1].val) :
            \E k \in 1..Len(farg.conns) :
                LET c == farg.conns[k]
                IN  /\ c.code = Some("active")
                    /\ \/ c.requester = Some(farg.vpc_id) /\ c.accepter = Some(fres[1].val[i])
                       \/ c.accepter = Some(farg.vpc_id) /\ c.requester = Some(fres[1].val[i])

\* a pending connection to vpc-b and an active one to vpc-c: only vpc-c is a peer
C12_Witness ==
    /\ PeersReturned
    /\ farg.conns = <<Peering(Some("pending-acceptance"), Some(VpcA), Some(VpcB)),
                      Peering(Some("active"), Some(VpcC), Some(VpcA))>>
    /\ fres[1].val = <<VpcC>>

\* C13: the list returned by get_peer_vpcs holds exactly the accepters of the
\* ACTIVE connections the network requested and the requesters of the ACTIVE
\* connections the network accepted, in strictly ascending order (sorted, each
\* peer once).
C13_PeersAreSortedUnion ==
    PeersReturned =>
        LET val == fres[1].val
            active == {k \in 1..Len(farg.conns) : farg.conns[k].code = Some("active")}
            asRequester == {farg.conns[k].accepter[1] :
                               k \in {a \in active : /\ farg.conns[a].requester = Some(farg.vpc_id)
                                                      /\ farg.conns[a].accepter # None}}
            asAccepter == {farg.conns[k].requester[1] :
                              k \in {a \in active : /\ farg.conns[a].accepter = Some(farg.vpc_id)
                                                     /\ farg.conns[a].requester # None}}
        IN  /\ {val[i] : i \in 1..Len(val)} = asRequester \cup asAccepter
            /\ \A i \in 1..(Len(val) - 1) : StrLess(val[i], val[i + 1])

\* vpc-c reached as requester comes first in the responses, vpc-b reached as
\* accepter second: the list is vpc-b, vpc-c
C13_Witness ==
    /\ PeersReturned
    /\ farg.conns = <<Peering(Some("active"), Some(VpcA), Some(VpcC)),
                      Peering(Some("active"), Some(VpcB), Some(VpcA))>>
    /\ fres[1].val = <<VpcB, VpcC>>

\* the list get_cidrs returned, when it has returned Ok
CidrsReturned == fcall = "get_cidrs" /\ fres # None /\ fres[1].ok

\* C14: the list returned by get_cidrs holds exactly the primary block, the
\* secondary IPv4 association blocks and the IPv6 association blocks of the
\* network of the response, in strictly ascending order (sorted, each block
\* once), whatever their order and multiplicity in the response.
C14_CidrsSortedDeduplicated ==
    CidrsReturned =>
        LET val == fres[1].val
            v == farg.resp[1]
            blocks == IF farg.resp = <<>> THEN {}
                      ELSE {o[1] : o \in ({v.cidr_block}
                                          \cup {v.assoc[i] : i \in 1..Len(v.assoc)}
                                          \cup {v.ipv6[i] : i \in 1..Len(v.ipv6)}) \ {None}}
        IN  /\ {val[i] : i \in 1..Len(val)} = blocks
            /\ \A i \in 1..(Len(val) - 1) : StrLess(val[i], val[i + 1])

\* the primary block repeated in the association set and one further block
C14_Witness ==
    /\ CidrsReturned
    /\ farg.resp = <<Vpc(Some(VpcA), None, Some(Cidr10), <<Some(Cidr10), Some(Cidr11)>>, <<>>)>>
    /\ fres[1].val = <<Cidr10, Cidr11>>

------------------------------------------------------------------------------
(* Properties of ls-vpc run, continued *)

\* C15: a provider error of the is_public call of one network does not end
\* the run: the run goes on to the CIDR blocks of that network with the public
\* flag left at false, and the outcome is not an error.
C15_IsPublicFailureIsolated ==
    (/\ vcalls # <<>>
     /\ vcalls[Len(vcalls)].op = "DescribeInternetGateways"
     /\ vcalls[Len(vcalls)].res = "err") =>
        /\ voutcome # "err"
        /\ vpc = "cidrs"
        /\ summary.public = FALSE

\* C16: the entries of the ScanResult mapping are in strictly ascending
\* lexicographic order of (region, network-id) at every moment of the run,
\* whatever the order of the configured regions and of the provider's lists,
\* and the rows rendered from it follow the same order.
C16_KeysAscending ==
    /\ \A i \in 1..(Len(vpcs) - 1) : KeyLess(vpcs[i].key, vpcs[i + 1].key)
    /\ LET rows == format_summary_table(vpcs)
       IN  /\ Len(rows) = Len(vpcs)
           /\ \A i \in 1..(Len(rows) - 1) :
                 KeyLess(<<rows[i][1], rows[i][4]>>, <<rows[i + 1][1], rows[i + 1][4]>>)

\* regions given as r2, r1 and region r1 listed as vpc-b, vpc-a: the entries
\* are (r1, vpc-a), (r1, vpc-b), (r2, vpc-b)
C16_Witness ==
    /\ vpc = "done"
    /\ voutcome = "ok"
    /\ vcfg.regions = <<Region2, Region1>>
    /\ vcfg.vpc_ids = <<>>
    /\ [i \in 1..Len(vpcs) |-> vpcs[i].key]
         = <<<<Region1, VpcA>>, <<Region1, VpcB>>, <<Region2, VpcB>>>>

C18_Ec2PartialResultsKept ==
    (/\ vpc = "scan"
     /\ vsi = 2
     /\ vhist # <<>>
     /\ vhist[Len(vhist)].op = "Ec2Scanner"
     /\ vhist[Len(vhist)].data >= 2) =>
        summary.resources
            = Flatten(SubSeq(Ec2ScannerCalls(VRegion, VId), 1, vhist[Len(vhist)].data - 1))

------------------------------------------------------------------------------
(* Properties of ls-rds, continued *)

\* C19: run returns Ok exactly when GetCallerIdentity succeeded and no
\* ListAccounts page failed: failed DescribeDBInstances calls and failing
\* delegated credentials, in any number and for any identifier and region, do
\* not turn the outcome into an error, and until it returns run stays inside
\* its region and identifier loops.
C19_OnlyFatalErrorsFail ==
    LET fatal == \E i \in 1..Len(calls) :
                    calls[i].op \in {"GetCallerIdentity", "ListAccounts"} /\ ~calls[i].ok
    IN  /\ pc = "done" => (outcome = "ok" <=> ~fatal)
        /\ pc \notin {"cli", "rejected", "done", "idle"} => (~fatal /\ outcome = "none")
        /\ pc \in {"list_rds", "scan_account"} => ri \in 1..(Len(regions) + 1)
        /\ pc = "arns" => ai \in 1..(Len(cfg.mode.arns) + 1)

\* an organization run that returned Ok although every listing failed, on
\* delegated credentials
C19_Witness ==
    /\ pc = "done"
    /\ outcome = "ok"
    /\ cfg.mode.kind = "Organization"
    /\ Cardinality(SelectIdx(calls, LAMBDA c : c.op = "DescribeDBInstances")) >= 2
    /\ \A i \in 1..Len(calls) :
          calls[i].op = "DescribeDBInstances" => (~calls[i].ok /\ calls[i].prov # 0)

\* what try_from returns for a Cli whose regions are not empty, as C20 reads
ModeStated(c) ==
    IF c.use_org THEN ModeOrganization
    ELSE IF c.role_arns # <<>> THEN ModeRoleArns(c.role_arns)
    ELSE ModeCurrentAccount

\* C20 (as stated): try_from resolves Organization when use_org is set,
\* otherwise RoleArns with the identifiers unchanged and in order when the
\* list is non-empty, otherwise CurrentAccount; with an empty region list it
\* fails with the region error in every mode.
C20_ModeResolvedAsStated ==
    [][pc = "cli" =>
        IF cli.regions = <<>>
        THEN ~cfg'.ok /\ cfg'.err = "At least one region must be specified"
        ELSE cfg'.ok /\ cfg'.mode = ModeStated(cli)]_vars

\* C20 (amended): the same, the mode being resolved when the region list is
\* non-empty and every supplied identifier is well-formed; a malformed
\* identifier with a non-empty region list makes try_from fail in every mode.
C20_ModeResolved ==
    [][pc = "cli" =>
        IF cli.regions = <<>>
        THEN ~cfg'.ok /\ cfg'.err = "At least one region must be specified"
        ELSE IF \A i \in 1..Len(cli.role_arns) :
                    /\ StartsWith(cli.role_arns[i], ArnPrefix)
                    /\ Contains(cli.role_arns[i], RoleMarker)
        THEN cfg'.ok /\ cfg'.mode = ModeStated(cli) /\ cfg'.regions = cli.regions
        ELSE ~cfg'.ok]_vars

\* try_from has accepted two different identifiers and kept their order
C20_Witness ==
    /\ pc = "ready"
    /\ cfg.ok
    /\ cfg.mode = ModeRoleArns(<<ArnOf2, ArnOf1>>)

------------------------------------------------------------------------------
(* Properties of ls-vpc Config::try_from and wrap_identifier *)

\* C21: ls-vpc Config::try_from returns Ok exactly when the region list is
\* not empty and every network-id starts with "vpc-"; the Config it returns
\* carries the regions and the network-ids unchanged and has summary_only set
\* exactly when the network-id list is empty; otherwise it returns an error
\* and no Config.
C21_VpcConfigValidated ==
    (fcall = "Config::try_from" /\ fres # None) =>
        LET valid == /\ farg.regions # <<>>
                     /\ \A i \in 1..Len(farg.vpc_ids) :
                           /\ Len(farg.vpc_ids[i]) >= 4
                           /\ SubSeq(farg.vpc_ids[i], 1, 4) = <<"v", "p", "c", "-">>
        IN  /\ fres[1].ok = valid
            /\ valid => /\ fres[1].val.regions = farg.regions
                        /\ fres[1].val.vpc_ids = farg.vpc_ids
                        /\ fres[1].val.summary_only = (farg.vpc_ids = <<>>)
            /\ ~valid => fres[1].val \in {"At least one region must be specified",
                                          "Invalid VPC ID format"}

\* two valid ids in descending order are accepted and detail mode is chosen
C21_Witness ==
    /\ fcall = "Config::try_from"
    /\ fres # None
    /\ fres[1].ok
    /\ fres[1].val.vpc_ids = <<VpcB, VpcA>>
    /\ ~fres[1].val.summary_only

\* wrap_identifier has returned
Wrapped == fcall = "wrap_identifier" /\ fres # None

\* C22: for max_width >= 10 every line of the result, indent included, is at
\* most max_width long, and every line that was broken ends with the
\* delimiter, so that breaks fall only between segments.
C22_WrappedLinesFit ==
    (Wrapped /\ farg.max_width >= 10) =>
        LET lines == Split(fres[1], "\n")
            delim == IF \E i \in 1..Len(farg.ident) : farg.ident[i] = "/" THEN "/" ELSE ":"
        IN  /\ \A i \in 1..Len(lines) : Len(lines[i]) <= farg.max_width
            /\ \A i \in 1..(Len(lines) - 1) :
                  lines[i] # <<>> /\ lines[i][Len(lines[i])] = delim

\* C23: the lines of the result, each without its blanks at both ends, give
\* back the identifier when put together; every line after the first starts
\* with two spaces; the identifier is returned as it is when max_width < 10
\* or when it is not longer than max_width.
C23_WrapPreservesContent ==
    Wrapped =>
        LET lines == Split(fres[1], "\n")
        IN  /\ Flatten([i \in 1..Len(lines) |-> Trim(lines[i])]) = farg.ident
            /\ \A i \in 2..Len(lines) :
                  Len(lines[i]) >= 2 /\ SubSeq(lines[i], 1, 2) = <<" ", " ">>
            /\ (farg.max_width < 10 \/ Len(farg.ident) <= farg.max_width) =>
                  fres[1] = farg.ident

------------------------------------------------------------------------------
(* Properties of the ls-vpc scanners *)

\* the API items a record of the given type is built from
ItemsOfType(rtype, region) ==
    CASE rtype = "elbv2.load-balancer" -> ElbLoadBalancers(region)
      [] rtype = "elbv2.target-group" -> ElbTargetGroups(region)
      [] OTHER -> RdsDbInstances(region)

\* every load-balancer, target-group and database-instance record of the list
\* rs comes from an item of the region whose network-id is vpc_id
FromOwnNetwork(rs, region, vpc_id) ==
    \A i \in 1..Len(rs) :
        rs[i].rtype \in {"elbv2.load-balancer", "elbv2.target-group", "rds.instance"} =>
            \E k \in 1..Len(ItemsOfType(rs[i].rtype, region)) :
                LET x == ItemsOfType(rs[i].rtype, region)[k]
                IN  x.arn = Some(rs[i].arn) /\ x.vpc = Some(vpc_id)

\* C24: every load-balancer, target-group and database-instance record, in
\* the record being built and in every inserted record, comes from an API
\* item whose own network-id (for a database instance that of its subnet
\* group) is the network the record is listed under; an item of another
\* network or without network-id is never listed.
C24_FilteredByOwnNetwork ==
    /\ vpc \in {"scan", "insert"} => FromOwnNetwork(summary.resources, VRegion, VId)
    /\ \A e \in 1..Len(vpcs) :
          FromOwnNetwork(vpcs[e].val.resources, vpcs[e].key[1], vpcs[e].key[2])

\* vpc-a of region r1 lists its target group and its database instance, and
\* neither the load balancers nor the instances of vpc-b or of no network
C24_Witness ==
    /\ vpc = "done"
    /\ voutcome = "ok"
    /\ \E e \in 1..Len(vpcs) :
          LET arns == {vpcs[e].val.resources[i].arn : i \in 1..Len(vpcs[e].val.resources)}
          IN  /\ vpcs[e].key = <<Region1, VpcA>>
              /\ {"tg-2", "db-1"} \subseteq arns
              /\ arns \cap {"lb-1", "lb-2", "tg-3", "db-2", "db-3"} = {}

\* C25: database clusters and document-store clusters are not filtered by
\* network: when the database scanner succeeded for a network, every cluster
\* the region's APIs return is in the resource list of that network, so a
\* cluster is listed under every network of its region scanned in detail.
C25_ClustersUnfiltered ==
    (/\ vpc = "insert"
     /\ ~vcfg.summary_only
     /\ \E i \in 1..Len(vcalls) : vcalls[i].op = "RdsScanner" /\ vcalls[i].res = "ok") =>
        \A c \in {RdsDbClusters(VRegion)[k].arn[1] : k \in 1..Len(RdsDbClusters(VRegion))}
              \cup {DocDbClusters(VRegion)[k].arn[1] : k \in 1..Len(DocDbClusters(VRegion))} :
            \E i \in 1..Len(summary.resources) :
                /\ summary.resources[i].arn = c
                /\ summary.resources[i].rtype \in {"rds.cluster", "docdb.cluster"}

\* the clusters of region r1 are listed under both of its networks
C25_Witness ==
    /\ vpc = "done"
    /\ voutcome = "ok"
    /\ \A id \in {VpcA, VpcB} :
          \E e \in 1..Len(vpcs) :
              /\ vpcs[e].key = <<Region1, id>>
              /\ {"cl-1", "doc-1"} \subseteq
                    {vpcs[e].val.resources[i].arn : i \in 1..Len(vpcs[e].val.resources)}

------------------------------------------------------------------------------
(* Properties of both programs *)

\* the DescribeDBInstances calls of the log, in the order they were made
Listings == SelectSeq(calls, LAMBDA c : c.op = "DescribeDBInstances")

\* the identifiers run lists for, in order: one per explicit identifier, one
\* per directory account, or the current account alone; <<>> stands for a
\* listing on the ambient credentials
ListingUnits ==
    CASE cfg.mode.kind = "RoleArns" ->
            [a \in 1..Len(cfg.mode.arns) |->
                IF ArnInCurrentAccount(cfg.mode.arns[a], caller_account)
                THEN <<>> ELSE cfg.mode.arns[a]]
      [] cfg.mode.kind = "Organization" ->
            [a \in 1..Len(OrgAccounts) |->
                ArnPrefix \o UnwrapOrDefault(OrgAccounts[a], <<>>) \o OrgRoleSuffix]
      [] OTHER -> << <<>> >>

\* C26: nothing is retried.  ls-rds: GetCallerIdentity is sent once; the k-th
\* DescribeDBInstances call of a run is the listing of the next (identifier,
\* region) pair in identifier order then region order, whether or not the
\* calls before it failed, and a run that returns Ok has made exactly one
\* call per pair; a failed GetCallerIdentity or directory page is the last
\* call of the run.  ls-vpc: each scanner occurs at most once among the calls
\* made for one (region, network) item, and a failed call other than a
\* scanner's ends the run.
C26_NoRetries ==
    /\ (pc \notin {"idle", "cli", "rejected", "ready"}) =>
          LET R == Len(regions)
              n == Len(Listings)
          IN  /\ Cardinality(SelectIdx(calls, LAMBDA c : c.op = "GetCallerIdentity")) = 1
              /\ \A i \in 1..Len(calls) :
                    (calls[i].op \in {"GetCallerIdentity", "ListAccounts"} /\ ~calls[i].ok)
                        => i = Len(calls) /\ pc = "done"
              /\ cfg.ok =>
                    /\ n <= Len(ListingUnits) * R
                    /\ \A k \in 1..n :
                          /\ Listings[k].region = regions[((k - 1) % R) + 1]
                          /\ Listings[k].arn = ListingUnits[((k - 1) \div R) + 1]
                    /\ (pc = "done" /\ outcome = "ok") => n = Len(ListingUnits) * R
    /\ vpc # "idle" =>
          /\ \A i, j \in 1..Len(vcalls) :
                (/\ \E s \in 1..Len(Scanners) : vcalls[i].op = Scanners[s]
                 /\ vcalls[i].op = vcalls[j].op) => i = j
          /\ \A i \in 1..Len(vcalls) :
                (/\ vcalls[i].res = "err"
                 /\ \A s \in 1..Len(Scanners) : vcalls[i].op # Scanners[s])
                    => i = Len(vcalls) /\ vpc = "done" /\ voutcome = "err"

\* a scanner failed for a network, the next scanner was invoked, and the
\* failed one was not invoked again
C26_Witness ==
    /\ vpc = "insert"
    /\ Len(vcalls) >= 2
    /\ \E i \in 1..Len(vcalls) :
          /\ vcalls[i].op = Scanners[1]
          /\ vcalls[i].res = "err"
          /\ i < Len(vcalls)
          /\ vcalls[i + 1].op = Scanners[2]

------------------------------------------------------------------------------
(* Properties of ls-vpc run, continued *)

\* C27: a record is created once per (region, network-id) pair per run: when
\* run inserts the record of a pair the aggregate holds no record of that
\* pair yet, for any configuration, and every record the aggregate holds
\* stays in it unchanged.
C27_CreatedOncePerPair ==
    [][/\ vpc = "insert" => \A e \in 1..Len(vpcs) : vpcs[e].key # <<VRegion, VId>>
       /\ \A e \in 1..Len(vpcs) : \E f \in 1..Len(vpcs') : vpcs'[f] = vpcs[e]]_vars

------------------------------------------------------------------------------
(* Properties of the ls-vpc binary *)

\* C28: peering_status reports a network as peered exactly when it has at
\* least one ACTIVE peering connection in either role, requester or accepter,
\* and exactly when the peer list the library computes from the same
\* connections is not empty.
C28_PeeredIffActiveEitherRole ==
    (fcall = "peering_status" /\ fres # None /\ fres[1].ok) =>
        /\ fres[1].val = "Peered" <=>
              \E k \in 1..Len(farg.conns) :
                  /\ farg.conns[k].code = Some("active")
                  /\ Some(farg.vpc_id) \in {farg.conns[k].requester, farg.conns[k].accepter}
        /\ fres[1].val = "Peered" <=> get_peer_vpcs(farg.conns, farg.vpc_id) # <<>>

------------------------------------------------------------------------------
(* Properties of the summary-only mode of ls-vpc *)

\* a scanner has been invoked for the network being processed
ScannerInvoked ==
    \E i \in 1..Len(vcalls) : \E s \in 1..Len(Scanners) : vcalls[i].op = Scanners[s]

\* C29: in summary-only mode no scanner is ever invoked, and every record of
\* the aggregate has an empty resource list while it carries the name the
\* listing gave the network, the public flag, the CIDRs and the peers computed
\* for it; a scanner is invoked only when explicit network-ids were given.
C29_SummaryOnlyScansNothing ==
    /\ vcfg.summary_only =>
          /\ ~ScannerInvoked
          /\ vpc # "scan"
          /\ summary.resources = <<>>
          /\ \A e \in 1..Len(vpcs) :
                LET region == vpcs[e].key[1]
                    id == vpcs[e].key[2]
                    v == vpcs[e].val
                IN  /\ v.resources = <<>>
                    /\ \E k \in 1..Len(DescribeVpcs(region)) :
                          VpcEntry(DescribeVpcs(region)[k]) = <<id, v.name>>
                    /\ v.public = is_public(region, id)
                    /\ v.cidrs = get_cidrs(DescribeVpcsById(region, id))
                    /\ v.peers = get_peer_vpcs(PeeringConnections(region), id)
    /\ (ScannerInvoked \/ vpc = "scan") => vcfg.vpc_ids # <<>>

\* a summary-only run over r1 returned both networks, classified and without
\* resources, although both have resources a detail run would list
C29_Witness ==
    /\ vpc = "done"
    /\ voutcome = "ok"
    /\ vcfg.summary_only
    /\ Len(vpcs) = 2
    /\ vpcs[1].key = <<Region1, VpcA>>
    /\ vpcs[1].val.public
    /\ vpcs[1].val.cidrs # <<>>
    /\ vpcs[1].val.resources = <<>>
    /\ vpcs[2].key = <<Region1, VpcB>>
    /\ vpcs[2].val.name = Some("net-b")
    /\ vpcs[2].val.peers = <<VpcA>>
    /\ vpcs[2].val.resources = <<>>
    /\ Scan("RdsScanner", Region1, VpcA, 0) # Some(<<>>)

------------------------------------------------------------------------------
(* Properties of the explicit-identifier mode of ls-rds *)

\* the records the k-th (identifier, region) pair contributes, pairs counted
\* in identifier order and within an identifier in region order: those of its
\* listing when the listing succeeded, none when it failed
RecordsOfPair(k) ==
    LET R == Len(regions)
        arn == cfg.mode.arns[((k - 1) \div R) + 1]
        region == regions[((k - 1) % R) + 1]
        self == ArnInCurrentAccount(arn, caller_account)
        acct == IF self THEN caller_account
                ELSE UnwrapOrDefault(extract_account_from_arn(arn), <<>>)
    IN  IF Listings[k].ok
        THEN [i \in 1..Len(DbTable(acct, region)) |->
                 RdsInstance(region, IF self THEN None ELSE Some(arn),
                             UnwrapOrDefault(DbTable(acct, region)[i], ""))]
        ELSE <<>>

Occurrences(s, x) == Cardinality(SelectIdx(s, LAMBDA y : y = x))

\* C30: when run returns Ok in explicit-identifier mode, the result is the
\* concatenation, in identifier order and within an identifier in region
\* order, of the records of every listing that succeeded; a record listed on
\* the ambient credentials carries no role identifier and a record listed
\* through a role carries that role's identifier; hence, when every listing
\* succeeded and k identifiers belong to the caller's account, a record of the
\* current account occurs k times as often as in one listing of the account.
C30_ExplicitModeConcatenates ==
    (pc = "done" /\ outcome = "ok" /\ cfg.mode.kind = "RoleArns") =>
        LET A == Len(cfg.mode.arns)
            R == Len(regions)
            selfs == SelectIdx(cfg.mode.arns, LAMBDA a : ArnInCurrentAccount(a, caller_account))
            once == Flatten([r \in 1..R |->
                        InstancesOf(DbTable(caller_account, regions[r]), regions[r], None)])
        IN  /\ Len(Listings) = A * R
            /\ instances = Flatten([k \in 1..(A * R) |-> RecordsOfPair(k)])
            /\ (\A k \in 1..(A * R) : Listings[k].ok) =>
                  \A i \in 1..Len(once) :
                      Occurrences(instances, once[i])
                          = Cardinality(selfs) * Occurrences(once, once[i])

\* two identifiers of the caller's account and one region: every instance of
\* the current account is in the result twice, without role identifier
C30_Witness ==
    /\ pc = "done"
    /\ outcome = "ok"
    /\ cfg.mode.kind = "RoleArns"
    /\ cfg.mode.arns = <<ArnOf1, ArnOf1>>
    /\ instances = <<RdsInstance(<<"r", "1">>, None, "db-a"),
                     RdsInstance(<<"r", "1">>, None, "db-b"),
                     RdsInstance(<<"r", "1">>, None, "db-a"),
                     RdsInstance(<<"r", "1">>, None, "db-b")>>

====
